---- MODULE Spec2Model ----
(***************************************************************************)
(* A model of the diff and signal-aggregation core of fund-tracker-13f:    *)
(* core/models.py, core/options_filter.py, core/diff_engine.py and         *)
(* core/aggregator.py.                                                     *)
(*                                                                         *)
(* Numbers.  Share counts and values are Python ints.  The floats the code *)
(* computes from them (weights, percentages) are ratios of small ints, so  *)
(* they are kept as exact fractions <<numerator, denominator>> with a      *)
(* positive denominator, and every comparison against a literal threshold  *)
(* is done by cross-multiplication.  For the magnitudes used here the      *)
(* IEEE-754 result of the code's comparison is the same as the exact one.  *)
(*                                                                         *)
(* A CUSIP is kept as <<first six characters, last three characters>>, so  *)
(* cusip[:6] is its first component.  A None put_call, ticker or sector is *)
(* the string "NONE".                                                      *)
(***************************************************************************)
EXTENDS Integers, Sequences, FiniteSets, TLC

VARIABLES
    current,      \* FundHoldings passed to compute_fund_diff as `current`
    prior,        \* FundHoldings passed to compute_fund_diff as `prior`
    diff,         \* the FundDiff it returned, or NoResult
    fund_diffs,   \* the list of FundDiff handed to aggregate_signals
    agg_args,     \* the thresholds of the last aggregate_signals call
    signals,      \* the CrossFundSignals it returned, or NoResult
    opt_call,     \* the arguments of a classify_option call
    opt_result,   \* what classify_option returned, or NoResult
    pd_args,      \* the keyword arguments of a PositionDiff(...) construction
    pd,           \* the PositionDiff constructed, or NoResult
    pd_read,      \* its is_significant_add / is_significant_trim as read, or NoResult
    conc_args,    \* the arguments (holdings, total) of a concentration computation
    conc,         \* the concentration metrics computed for them, or NoResult
    sector_map,   \* run_analysis's sector/float data by ticker, or NoResult
    top_args,     \* the arguments (n) of a compute_top_findings call
    findings,     \* the list it returned, or NoResult
    db_holdings,  \* the rows of the holdings table of the SQLite store, by id
    store_args,   \* the FundHoldings of the last store_holdings call, or NoResult
    store_calls,  \* the number of store_holdings calls made
    cusip_map,    \* the cusip_map table of the store: ticker (or NULL) by cusip
    lookups,      \* how many times each CUSIP was sent to the lookup service
    cached_miss,  \* the CUSIPs cache_write(cusip, None, None, None) was called for
    resolved,     \* what the last resolve_cusips call returned, or NoResult
    resolve_calls, \* the number of resolve_cusips calls made
    filing_index, \* the filings of the filing_index table with processed_at set
    stored_filings, \* the filings whose holdings store_holdings has stored
    fetched,      \* how many times each filing's information table was fetched
    raised,       \* the filings whose fetch, parse or store raised in some run
    fetch_runs,   \* the number of fetch_filings calls started
    fetch_pos,    \* where the running fetch_filings call is in its loops, or NoResult
    fetch_event,  \* what its last step did, or NoResult
    base_args,    \* the arguments of the compute_fund_baselines call, or NoResult
    fund_baselines \* the dict it returned, or NoResult

core_vars == <<current, prior, diff, fund_diffs, agg_args, signals,
               opt_call, opt_result, pd_args, pd, pd_read, conc_args, conc,
               sector_map, top_args, findings>>
store_vars == <<db_holdings, store_args, store_calls>>
resolve_vars == <<cusip_map, lookups, cached_miss, resolved, resolve_calls>>
fetch_vars == <<filing_index, stored_filings, fetched, raised, fetch_runs, fetch_pos, fetch_event>>
base_vars == <<base_args, fund_baselines>>
data_vars == <<store_vars, resolve_vars, fetch_vars, base_vars>>
vars == <<core_vars, data_vars>>

diff_vars == <<current, prior, diff>>
agg_vars  == <<fund_diffs, agg_args, signals, sector_map>>
opt_vars  == <<opt_call, opt_result>>
pd_vars   == <<pd_args, pd, pd_read>>
conc_vars == <<conc_args, conc>>
top_vars  == <<top_args, findings>>

NONE == "NONE"

\* An optional object (Holding | None, a result not yet computed, a keyword
\* argument not given) is <<>> when absent and <<x>> when it is x.
None == <<>>
Some(x) == <<x>>
NoResult == <<>>
NotGiven == <<>>

\* the data layer is not in use
IdleStore ==
    /\ db_holdings = <<>> /\ store_args = NoResult /\ store_calls = 0
\* the CUSIP resolver is not in use
IdleResolve ==
    /\ cusip_map = <<>> /\ lookups = <<>> /\ cached_miss = {}
    /\ resolved = NoResult /\ resolve_calls = 0
\* fetch_filings is not in use
IdleFetch ==
    /\ filing_index = {} /\ stored_filings = {} /\ fetched = <<>> /\ raised = {}
    /\ fetch_runs = 0 /\ fetch_pos = NoResult /\ fetch_event = NoResult
\* compute_fund_baselines is not in use
IdleBase == base_args = NoResult /\ fund_baselines = NoResult
IdleData == IdleStore /\ IdleResolve /\ IdleFetch /\ IdleBase

(***************************************************************************)
(* Exact fractions                                                         *)
(***************************************************************************)
Frac(n, d) == <<n, d>>
FracGE(a, b) == a[1] * b[2] >= b[1] * a[2]
FracLE(a, b) == a[1] * b[2] <= b[1] * a[2]
FracGT(a, b) == a[1] * b[2] > b[1] * a[2]
FracLT(a, b) == a[1] * b[2] < b[1] * a[2]
FracEQ(a, b) == a[1] * b[2] = b[1] * a[2]
FracSub(a, b) == Frac(a[1] * b[2] - b[1] * a[2], a[2] * b[2])
Abs(x) == IF x < 0 THEN -x ELSE x

(***************************************************************************)
(* core/models.py                                                          *)
(***************************************************************************)
PositionChangeType == {"NEW", "EXITED", "ADDED", "TRIMMED", "UNCHANGED"}

\* class Holding: the fields the core reads.
Holding(cusip, put_call, value_thousands, shares_or_prn_amt, sh_prn_type, ticker, sector) ==
    [cusip |-> cusip, put_call |-> put_call,
     value_thousands |-> value_thousands,
     shares_or_prn_amt |-> shares_or_prn_amt,
     sh_prn_type |-> sh_prn_type, ticker |-> ticker, sector |-> sector]

is_option(h) == h.put_call # NONE
is_equity(h) == h.put_call = NONE /\ h.sh_prn_type = "SH"
issuer_cusip_prefix(h) == h.cusip[1]

RECURSIVE SumValues(_)
SumValues(hs) ==
    IF hs = <<>> THEN 0
    ELSE Head(hs).value_thousands + SumValues(Tail(hs))

\* FundHoldings(...) followed by its model_validator compute_total.
compute_total(total_value_thousands, holdings) ==
    IF total_value_thousands = 0 /\ holdings # <<>>
    THEN SumValues(holdings)
    ELSE total_value_thousands

FundHoldings(fund, holdings, total_value_thousands) ==
    [fund |-> fund, holdings |-> holdings,
     total_value_thousands |-> compute_total(total_value_thousands, holdings)]

\* PositionDiff field defaults (models.py 254-277).
DefaultWeightPct == Frac(0, 1)
DefaultSharesChangePct == Frac(0, 1)

SignificantAddPct == Frac(1, 2)      \* 0.50
SignificantTrimPct == Frac(-3, 5)    \* -0.60
SignificantWeightPct == Frac(1, 4)   \* 0.25

\* PositionDiff(**kwargs): pydantic fills the fields that are not given with
\* their defaults.  kwargs maps each field name to a value or to NotGiven.
PositionDiffCtor(kwargs) ==
    [change_type |-> kwargs.change_type,
     shares_change_pct |->
        IF kwargs.shares_change_pct = NotGiven THEN DefaultSharesChangePct
        ELSE kwargs.shares_change_pct[1],
     current_weight_pct |->
        IF kwargs.current_weight_pct = NotGiven THEN DefaultWeightPct
        ELSE kwargs.current_weight_pct[1],
     prior_weight_pct |->
        IF kwargs.prior_weight_pct = NotGiven THEN DefaultWeightPct
        ELSE kwargs.prior_weight_pct[1]]

\* is_significant_add without the weight gate
is_significant_add_NoWeightGate(d) ==
    /\ d.change_type = "ADDED"
    /\ FracGE(d.shares_change_pct, SignificantAddPct)

is_significant_add(d) ==
    /\ d.change_type = "ADDED"
    /\ FracGE(d.shares_change_pct, SignificantAddPct)
    /\ FracGE(d.current_weight_pct, SignificantWeightPct)

is_significant_trim(d) ==
    /\ d.change_type = "TRIMMED"
    /\ FracLE(d.shares_change_pct, SignificantTrimPct)
    /\ FracGE(d.prior_weight_pct, SignificantWeightPct)

(***************************************************************************)
(* Python's list.sort / sorted: a stable sort of the places of a list.     *)
(* before[i, j] is the strict order of the sort keys of s[i] and s[j];     *)
(* elements with equal keys keep their order.                              *)
(***************************************************************************)
\* x goes behind every element it does not strictly precede
InsertSorted(sorted, x, before) ==
    LET pos == Cardinality({j \in DOMAIN sorted : ~before[x, sorted[j]]})
    IN  SubSeq(sorted, 1, pos) \o <<x>> \o SubSeq(sorted, pos + 1, Len(sorted))

\* before[i, j]: whether s[i] sorts strictly ahead of s[j]
StableSort(s, before) ==
    LET RECURSIVE SortedPrefix(_)
        SortedPrefix(k) ==
            IF k = 0 THEN <<>>
            ELSE InsertSorted(SortedPrefix(k - 1), k, before)
        order == SortedPrefix(Len(s))
    IN  [i \in DOMAIN s |-> s[order[i]]]

Take(s, n) == SubSeq(s, 1, IF Len(s) < n THEN Len(s) ELSE n)

KeyOf(h) == <<h.cusip, h.put_call>>
KeysOf(hs) == {KeyOf(hs[i]) : i \in DOMAIN hs}

(***************************************************************************)
(* core/options_filter.py                                                  *)
(***************************************************************************)
DefaultAumThreshold == Frac(5, 1000)   \* aum_threshold: float = 0.005
SmallOptionWeight == Frac(2, 1000)     \* 0.002
SmallOptionLimit == 20
TopN == 10
HedgeRatio == 10                       \* value < equity_value * 0.10
ChangePctInclude == Frac(1, 2)         \* 0.50
NewNotionalInclude == 10000

_fund_has_equity_in_issuer(issuer_prefix, holdings) ==
    \E i \in DOMAIN holdings :
        issuer_cusip_prefix(holdings[i]) = issuer_prefix /\ is_equity(holdings[i])

RECURSIVE _get_equity_value_for_issuer(_, _)
_get_equity_value_for_issuer(issuer_prefix, holdings) ==
    IF holdings = <<>> THEN 0
    ELSE (IF issuer_cusip_prefix(Head(holdings)) = issuer_prefix /\ is_equity(Head(holdings))
          THEN Head(holdings).value_thousands ELSE 0)
         + _get_equity_value_for_issuer(issuer_prefix, Tail(holdings))

ValueDesc(a, b) == a.value_thousands > b.value_thousands

_in_top_n_by_value(holding, all_holdings, n) ==
    LET sorted_holdings ==
            StableSort(all_holdings,
                       [i, j \in DOMAIN all_holdings |->
                            ValueDesc(all_holdings[i], all_holdings[j])])
        top_keys == KeysOf(Take(sorted_holdings, n))
    IN  KeyOf(holding) \in top_keys

WeightOf(value_thousands, total_aum_thousands) ==
    IF total_aum_thousands > 0 THEN Frac(value_thousands, total_aum_thousands)
    ELSE Frac(0, 1)

small_option_count(all_holdings, total_aum_thousands) ==
    Cardinality({i \in DOMAIN all_holdings :
        /\ is_option(all_holdings[i])
        /\ total_aum_thousands > 0
        /\ FracLT(Frac(all_holdings[i].value_thousands, total_aum_thousands), SmallOptionWeight)})

\* classify_option with the generic weight rule tried before the hedge rule
classify_option_WeightFirst(holding, all_holdings, total_aum_thousands, change_type, prior_holding, aum_threshold) ==
    LET weight == WeightOf(holding.value_thousands, total_aum_thousands)
        equity_value == _get_equity_value_for_issuer(issuer_cusip_prefix(holding), all_holdings)
    IN  IF ~is_option(holding) THEN "INCLUDE"
        ELSE IF /\ change_type = "NEW" /\ holding.put_call = "PUT"
                /\ ~_fund_has_equity_in_issuer(issuer_cusip_prefix(holding), all_holdings)
             THEN "INCLUDE"
        ELSE IF FracGE(weight, aum_threshold)
             THEN "INCLUDE"
        ELSE IF equity_value > 0 /\ HedgeRatio * holding.value_thousands < equity_value
             THEN "EXCLUDE"
        ELSE IF small_option_count(all_holdings, total_aum_thousands) >= SmallOptionLimit
             THEN "EXCLUDE"
        ELSE IF Len(all_holdings) >= TopN /\ _in_top_n_by_value(holding, all_holdings, TopN)
             THEN "INCLUDE"
        ELSE IF /\ prior_holding # None
                /\ prior_holding[1].value_thousands > 0
                /\ FracGE(Frac(Abs(holding.value_thousands - prior_holding[1].value_thousands),
                               prior_holding[1].value_thousands), ChangePctInclude)
             THEN "INCLUDE"
        ELSE IF change_type = "NEW" /\ holding.value_thousands >= NewNotionalInclude
             THEN "INCLUDE"
        ELSE "FLAG"

classify_option(holding, all_holdings, total_aum_thousands, change_type, prior_holding, aum_threshold) ==
    LET weight == WeightOf(holding.value_thousands, total_aum_thousands)
        equity_value == _get_equity_value_for_issuer(issuer_cusip_prefix(holding), all_holdings)
    IN  IF ~is_option(holding) THEN "INCLUDE"
        ELSE IF /\ change_type = "NEW" /\ holding.put_call = "PUT"
                /\ ~_fund_has_equity_in_issuer(issuer_cusip_prefix(holding), all_holdings)
             THEN "INCLUDE"
        ELSE IF change_type = "NEW" /\ holding.put_call = "CALL" /\ FracGE(weight, aum_threshold)
             THEN "INCLUDE"
        ELSE IF equity_value > 0 /\ HedgeRatio * holding.value_thousands < equity_value
             THEN "EXCLUDE"
        ELSE IF FracGE(weight, aum_threshold)
             THEN "INCLUDE"
        ELSE IF small_option_count(all_holdings, total_aum_thousands) >= SmallOptionLimit
             THEN "EXCLUDE"
        ELSE IF Len(all_holdings) >= TopN /\ _in_top_n_by_value(holding, all_holdings, TopN)
             THEN "INCLUDE"
        ELSE IF /\ prior_holding # None
                /\ prior_holding[1].value_thousands > 0
                /\ FracGE(Frac(Abs(holding.value_thousands - prior_holding[1].value_thousands),
                               prior_holding[1].value_thousands), ChangePctInclude)
             THEN "INCLUDE"
        ELSE IF change_type = "NEW" /\ holding.value_thousands >= NewNotionalInclude
             THEN "INCLUDE"
        ELSE "FLAG"

(***************************************************************************)
(* core/diff_engine.py                                                     *)
(***************************************************************************)
\* {(h.cusip, h.put_call): h for h in holdings}.get(key): the last holding
\* with the key, or None.
MapGet(holdings, key) ==
    IF key \in KeysOf(holdings)
    THEN LET last == CHOOSE i \in DOMAIN holdings :
                        /\ KeyOf(holdings[i]) = key
                        /\ \A j \in DOMAIN holdings : KeyOf(holdings[j]) = key => j <= i
         IN  Some(holdings[last])
    ELSE None

ClassifyChange_AddedOnTie(prev_shares, curr_shares) ==
    IF prev_shares = 0 /\ curr_shares > 0 THEN "NEW"
    ELSE IF curr_shares = 0 /\ prev_shares > 0 THEN "EXITED"
    ELSE IF curr_shares >= prev_shares THEN "ADDED"
    ELSE IF curr_shares < prev_shares THEN "TRIMMED"
    ELSE "UNCHANGED"

ClassifyChange(prev_shares, curr_shares) ==
    IF prev_shares = 0 /\ curr_shares > 0 THEN "NEW"
    ELSE IF curr_shares = 0 /\ prev_shares > 0 THEN "EXITED"
    ELSE IF curr_shares > prev_shares THEN "ADDED"
    ELSE IF curr_shares < prev_shares THEN "TRIMMED"
    ELSE "UNCHANGED"

\* a share change that divides whenever there is a prior holding row
SharesChangePct_NoNewCase(prev_shares, curr_shares) ==
    IF prev_shares > 0 THEN Frac(curr_shares - prev_shares, prev_shares)
    ELSE Frac(0, 1)

SharesChangePct(prev_shares, curr_shares) ==
    IF prev_shares > 0 THEN Frac(curr_shares - prev_shares, prev_shares)
    ELSE IF curr_shares > 0 THEN Frac(1, 1)
    ELSE Frac(0, 1)

\* value / aum * 100, or 0.0 when aum is 0
WeightPct(value_k, aum_k) ==
    IF aum_k > 0 THEN Frac(100 * value_k, aum_k) ELSE Frac(0, 1)

OptionsAction_ExitExcluded(put_call, current_holding, prior_holding, current_aum_k, change_type, all_current_holdings) ==
    IF put_call # NONE /\ current_holding # None
    THEN classify_option(current_holding[1], all_current_holdings, current_aum_k,
                         change_type, prior_holding, DefaultAumThreshold)
    ELSE IF put_call # NONE /\ current_holding = None
    THEN "EXCLUDE"
    ELSE "FLAG"

OptionsAction(put_call, current_holding, prior_holding, current_aum_k, change_type, all_current_holdings) ==
    IF put_call # NONE /\ current_holding # None
    THEN classify_option(current_holding[1], all_current_holdings, current_aum_k,
                         change_type, prior_holding, DefaultAumThreshold)
    ELSE IF put_call # NONE /\ current_holding = None
    THEN "INCLUDE"
    ELSE "FLAG"

_build_position_diff(cusip, put_call, current_holding, prior_holding, current_aum_k, prior_aum_k, all_current_holdings) ==
    LET curr_shares == IF current_holding # None THEN current_holding[1].shares_or_prn_amt ELSE 0
        prev_shares == IF prior_holding # None THEN prior_holding[1].shares_or_prn_amt ELSE 0
        curr_value_k == IF current_holding # None THEN current_holding[1].value_thousands ELSE 0
        prev_value_k == IF prior_holding # None THEN prior_holding[1].value_thousands ELSE 0
        change_type == ClassifyChange(prev_shares, curr_shares)
        meta == IF current_holding # None THEN current_holding[1]
                ELSE IF prior_holding # None THEN prior_holding[1]
                ELSE [ticker |-> NONE, sector |-> NONE]
    IN  [cusip |-> cusip,
         ticker |-> meta.ticker,
         put_call |-> put_call,
         sector |-> meta.sector,
         current_shares |-> curr_shares,
         current_value_thousands |-> curr_value_k,
         current_weight_pct |-> WeightPct(curr_value_k, current_aum_k),
         prior_shares |-> prev_shares,
         prior_value_thousands |-> prev_value_k,
         prior_weight_pct |-> WeightPct(prev_value_k, prior_aum_k),
         change_type |-> change_type,
         shares_change |-> curr_shares - prev_shares,
         shares_change_pct |-> SharesChangePct(prev_shares, curr_shares),
         value_change_thousands |-> curr_value_k - prev_value_k,
         is_options_position |-> put_call # NONE,
         options_filter_action |->
            OptionsAction(put_call, current_holding, prior_holding, current_aum_k,
                          change_type, all_current_holdings)]

IsExcluded(d) == d.is_options_position /\ d.options_filter_action = "EXCLUDE"

CurrentValueDesc(a, b) == a.current_value_thousands > b.current_value_thousands
PriorValueDesc(a, b) == a.prior_value_thousands > b.prior_value_thousands
\* the added positions ordered by ascending percentage
SharesChangePctDesc_Ascending(a, b) == FracLT(a.shares_change_pct, b.shares_change_pct)

SharesChangePctDesc(a, b) == FracGT(a.shares_change_pct, b.shares_change_pct)
SharesChangePctAsc(a, b) == FracLT(a.shares_change_pct, b.shares_change_pct)

OfType(ds, t) == SelectSeq(ds, LAMBDA d : d.change_type = t)

RECURSIVE SumSquares(_)
SumSquares(hs) ==
    IF hs = <<>> THEN 0
    ELSE Head(hs).value_thousands * Head(hs).value_thousands + SumSquares(Tail(hs))

\* the HHI without the guard for a total of 0: the division is carried out
_compute_hhi_Unguarded(holdings, total_value_k) ==
    Frac(SumSquares(holdings), total_value_k * total_value_k)

\* sum((h.value_thousands / total_value_k) ** 2), as one fraction
_compute_hhi(holdings, total_value_k) ==
    IF total_value_k = 0 THEN Frac(0, 1)
    ELSE Frac(SumSquares(holdings), total_value_k * total_value_k)

\* sum(weights[:n]) of the weights sorted largest first, as one fraction
_top_n_weight(holdings, total_value_k, n) ==
    IF total_value_k = 0 THEN Frac(0, 1)
    ELSE LET sorted == StableSort(holdings,
                           [i, j \in DOMAIN holdings |-> ValueDesc(holdings[i], holdings[j])])
         IN  Frac(SumValues(Take(sorted, n)), total_value_k)

(***************************************************************************)
(* core/concentration.py                                                   *)
(***************************************************************************)
TopWeight(sorted, total_value_k, n) == Frac(SumValues(Take(sorted, n)), total_value_k)

NoConcentration ==
    [hhi |-> Frac(0, 1), top5_weight |-> Frac(0, 1), top10_weight |-> Frac(0, 1),
     top20_weight |-> Frac(0, 1), position_count |-> 0, effective_positions |-> Frac(0, 1)]

\* the metrics with the HHI summed over the weights, not over their squares
compute_portfolio_concentration_NoSquare(holdings, total_value_k) ==
    IF total_value_k = 0 \/ holdings = <<>> THEN NoConcentration
    ELSE [NoConcentration EXCEPT
             !.hhi = Frac(SumValues(holdings), total_value_k),
             !.position_count = Len(holdings)]

compute_portfolio_concentration(holdings, total_value_k) ==
    IF total_value_k = 0 \/ holdings = <<>> THEN NoConcentration
    ELSE LET sorted == StableSort(holdings,
                           [i, j \in DOMAIN holdings |-> ValueDesc(holdings[i], holdings[j])])
             hhi == Frac(SumSquares(sorted), total_value_k * total_value_k)
         IN  [hhi |-> hhi,
              top5_weight |-> TopWeight(sorted, total_value_k, 5),
              top10_weight |-> TopWeight(sorted, total_value_k, 10),
              top20_weight |-> TopWeight(sorted, total_value_k, 20),
              position_count |-> Len(holdings),
              effective_positions |->
                  IF FracGT(hhi, Frac(0, 1)) THEN Frac(hhi[2], hhi[1]) ELSE Frac(0, 1)]

AumChangePct(current_aum, prior_aum) ==
    IF prior_aum > 0 THEN Frac(current_aum - prior_aum, prior_aum) ELSE Frac(0, 1)

\* all_keys, the union of the two maps' keys
AllKeys(cur, pri) == KeysOf(cur.holdings) \cup KeysOf(pri.holdings)

\* The orders in which `for key in all_keys` can visit a set: Python fixes none.
IterationOrders(S) ==
    {o \in [1..Cardinality(S) -> S] : \A k \in S : \E i \in DOMAIN o : o[i] = k}

\* compute_fund_diff(current, prior); key_order is the order in which the
\* loop visits all_keys.
compute_fund_diff(cur, pri, key_order) ==
    LET current_aum == cur.total_value_thousands
        prior_aum == pri.total_value_thousands
        built == [i \in DOMAIN key_order |->
                    _build_position_diff(key_order[i][1], key_order[i][2],
                        MapGet(cur.holdings, key_order[i]),
                        MapGet(pri.holdings, key_order[i]),
                        current_aum, prior_aum, cur.holdings)]
        kept == SelectSeq(built, LAMBDA d : ~IsExcluded(d))
    IN  [fund |-> cur.fund,
         current_aum_thousands |-> current_aum,
         prior_aum_thousands |-> prior_aum,
         aum_change_pct |-> AumChangePct(current_aum, prior_aum),
         new_positions |->
            LET ds == OfType(kept, "NEW")
            IN  StableSort(ds, [i, j \in DOMAIN ds |-> CurrentValueDesc(ds[i], ds[j])]),
         exited_positions |->
            LET ds == OfType(kept, "EXITED")
            IN  StableSort(ds, [i, j \in DOMAIN ds |-> PriorValueDesc(ds[i], ds[j])]),
         added_positions |->
            LET ds == OfType(kept, "ADDED")
            IN  StableSort(ds, [i, j \in DOMAIN ds |-> SharesChangePctDesc(ds[i], ds[j])]),
         trimmed_positions |->
            LET ds == OfType(kept, "TRIMMED")
            IN  StableSort(ds, [i, j \in DOMAIN ds |-> SharesChangePctAsc(ds[i], ds[j])]),
         unchanged_positions |-> OfType(kept, "UNCHANGED"),
         current_hhi |-> _compute_hhi(cur.holdings, current_aum),
         prior_hhi |-> _compute_hhi(pri.holdings, prior_aum),
         hhi_change |-> FracSub(_compute_hhi(cur.holdings, current_aum),
                                _compute_hhi(pri.holdings, prior_aum)),
         current_top10_weight |-> _top_n_weight(cur.holdings, current_aum, TopN),
         prior_top10_weight |-> _top_n_weight(pri.holdings, prior_aum, TopN)]

(***************************************************************************)
(* core/aggregator.py: aggregate_signals                                   *)
(***************************************************************************)
EmptyActions == [initiated |-> <<>>, added |-> <<>>, trimmed |-> <<>>, exited |-> <<>>]

\* The state of step 1: the four dicts, each with its keys in insertion order.
EmptyMaps ==
    [action_keys |-> <<>>,        \* keys of cusip_actions, in insertion order
     cusip_actions |-> <<>>,      \* a function on the keys seen so far
     metadata_keys |-> <<>>,      \* keys of cusip_metadata, in insertion order
     cusip_metadata |-> <<>>,
     cusip_values |-> <<>>,
     cusip_shares |-> <<>>]

Has(f, k) == k \in DOMAIN f
Put(f, k, v) == [x \in DOMAIN f \cup {k} |-> IF x = k THEN v ELSE f[x]]
GetOr(f, k, default) == IF k \in DOMAIN f THEN f[k] ELSE default
Get(f, k) == IF k \in DOMAIN f THEN Some(f[k]) ELSE None

\* The map key the aggregator uses for a position.
ActionKey(pos) == pos.cusip

\* totals overwritten by each fund instead of accumulated
RecordPosition_Overwrite(m, fund_name, pos, bucket) ==
    LET key == ActionKey(pos)
        acts == GetOr(m.cusip_actions, key, EmptyActions)
        value == IF bucket = "exited" THEN pos.prior_value_thousands
                 ELSE pos.current_value_thousands
    IN  [action_keys |->
            IF bucket # NONE /\ ~Has(m.cusip_actions, key)
            THEN Append(m.action_keys, key) ELSE m.action_keys,
         cusip_actions |->
            IF bucket = NONE THEN m.cusip_actions
            ELSE Put(m.cusip_actions, key,
                     [acts EXCEPT ![bucket] = Append(acts[bucket], fund_name)]),
         metadata_keys |->
            IF ~Has(m.cusip_metadata, key)
            THEN Append(m.metadata_keys, key) ELSE m.metadata_keys,
         cusip_metadata |->
            IF bucket = "initiated" \/ ~Has(m.cusip_metadata, key)
            THEN Put(m.cusip_metadata, key, pos) ELSE m.cusip_metadata,
         cusip_values |->
            Put(m.cusip_values, key, value),
         cusip_shares |->
            IF bucket = "exited" THEN m.cusip_shares
            ELSE Put(m.cusip_shares, key, pos.current_shares)]

\* One iteration of one of the five inner loops: bucket is the action bucket
\* the loop appends to, or NONE for the loop over unchanged_positions.
RecordPosition(m, fund_name, pos, bucket) ==
    LET key == ActionKey(pos)
        acts == GetOr(m.cusip_actions, key, EmptyActions)
        value == IF bucket = "exited" THEN pos.prior_value_thousands
                 ELSE pos.current_value_thousands
    IN  [action_keys |->
            IF bucket # NONE /\ ~Has(m.cusip_actions, key)
            THEN Append(m.action_keys, key) ELSE m.action_keys,
         cusip_actions |->
            IF bucket = NONE THEN m.cusip_actions
            ELSE Put(m.cusip_actions, key,
                     [acts EXCEPT ![bucket] = Append(acts[bucket], fund_name)]),
         metadata_keys |->
            IF ~Has(m.cusip_metadata, key)
            THEN Append(m.metadata_keys, key) ELSE m.metadata_keys,
         cusip_metadata |->
            IF bucket = "initiated" \/ ~Has(m.cusip_metadata, key)
            THEN Put(m.cusip_metadata, key, pos) ELSE m.cusip_metadata,
         cusip_values |->
            Put(m.cusip_values, key, GetOr(m.cusip_values, key, 0) + value),
         cusip_shares |->
            IF bucket = "exited" THEN m.cusip_shares
            ELSE Put(m.cusip_shares, key, GetOr(m.cusip_shares, key, 0) + pos.current_shares)]

RECURSIVE RecordAll(_, _, _, _)
RecordAll(m, fund_name, positions, bucket) ==
    IF positions = <<>> THEN m
    ELSE RecordAll(RecordPosition(m, fund_name, Head(positions), bucket),
                   fund_name, Tail(positions), bucket)

\* The body of `for diff in fund_diffs`.
RecordFund(m, d) ==
    LET m1 == RecordAll(m, d.fund, d.new_positions, "initiated")
        m2 == RecordAll(m1, d.fund, d.added_positions, "added")
        m3 == RecordAll(m2, d.fund, d.trimmed_positions, "trimmed")
        m4 == RecordAll(m3, d.fund, d.exited_positions, "exited")
    IN  RecordAll(m4, d.fund, d.unchanged_positions, NONE)

RECURSIVE BuildMaps(_, _)
BuildMaps(m, diffs) ==
    IF diffs = <<>> THEN m
    ELSE BuildMaps(RecordFund(m, Head(diffs)), Tail(diffs))

total_funds_buying(t) == Len(t.funds_initiated) + Len(t.funds_added)
total_funds_selling(t) == Len(t.funds_trimmed) + Len(t.funds_exited)

\* sector_data is None or a dict: a function from tickers to records with
\* float_shares None or a number.  An empty dict is falsy.
HasSectorData(sector_data) == sector_data # None /\ DOMAIN sector_data[1] # {}

\* sector_data[ticker].get("float_shares") when it is a positive number
FloatSharesOf(sector_data, ticker) ==
    IF /\ ticker # NONE
       /\ HasSectorData(sector_data)
       /\ ticker \in DOMAIN sector_data[1]
       /\ sector_data[1][ticker].float_shares # None
       /\ sector_data[1][ticker].float_shares[1] > 0
    THEN sector_data[1][ticker].float_shares
    ELSE None

\* round(agg_shares / fs * 100, 2), in hundredths of a percent over 100.  The
\* quotient is rounded to the nearest hundredth; no input here sits on a tie.
RoundedFloatPct(agg_shares, fs) == Frac((20000 * agg_shares + fs) \div (2 * fs), 100)

\* a sentiment that ignores the sellers
net_fund_sentiment_BuyersOnly(total_buying, total_selling) == total_buying

net_fund_sentiment(total_buying, total_selling) == total_buying - total_selling

\* The CrowdedTrade built for one key of cusip_actions.
MakeTrade(m, key, sector_data) ==
    LET actions == m.cusip_actions[key]
        meta == Get(m.cusip_metadata, key)
        total_buying == Len(actions.initiated) + Len(actions.added)
        total_selling == Len(actions.trimmed) + Len(actions.exited)
        ticker == IF meta # None THEN meta[1].ticker ELSE NONE
        float_shares == FloatSharesOf(sector_data, ticker)
        agg_shares == GetOr(m.cusip_shares, key, 0)
    IN  [cusip |-> key,
         float_shares |-> float_shares,
         float_ownership_pct |->
            IF float_shares # None /\ agg_shares > 0
            THEN Some(RoundedFloatPct(agg_shares, float_shares[1])) ELSE None,
         ticker |-> IF meta # None THEN meta[1].ticker ELSE NONE,
         sector |-> IF meta # None THEN meta[1].sector ELSE NONE,
         funds_initiated |-> actions.initiated,
         funds_added |-> actions.added,
         funds_trimmed |-> actions.trimmed,
         funds_exited |-> actions.exited,
         net_fund_sentiment |-> net_fund_sentiment(total_buying, total_selling),
         aggregate_value_thousands |-> GetOr(m.cusip_values, key, 0),
         aggregate_shares |-> GetOr(m.cusip_shares, key, 0)]

MakeDivergence(m, key) ==
    LET actions == m.cusip_actions[key]
        meta == Get(m.cusip_metadata, key)
    IN  [cusip |-> key,
         ticker |-> IF meta # None THEN meta[1].ticker ELSE NONE,
         sector |-> IF meta # None THEN meta[1].sector ELSE NONE,
         initiated_by |-> actions.initiated,
         exited_by |-> actions.exited]

IsCrowded(t, min_funds_for_crowd) == total_funds_buying(t) >= min_funds_for_crowd

IsConsensus(t, min_funds_for_consensus) == Len(t.funds_initiated) >= min_funds_for_consensus

\* a divergence test that takes any buyer for an initiator
IsDivergence_AnyBuyer(actions) ==
    /\ actions.initiated \o actions.added # <<>>
    /\ actions.exited # <<>>

IsDivergence(actions) == actions.initiated # <<>> /\ actions.exited # <<>>

NetSentimentDesc(a, b) == a.net_fund_sentiment > b.net_fund_sentiment
InitiatedCountDesc(a, b) == Len(a.funds_initiated) > Len(b.funds_initiated)
DivergenceSizeDesc(a, b) ==
    Len(a.initiated_by) + Len(a.exited_by) > Len(b.initiated_by) + Len(b.exited_by)

SectorOfPosition(pos) == IF pos.sector = NONE THEN "Unknown" ELSE pos.sector

\* sector_counts / flows after one more position: the sector's entry with f
\* applied, the entry created with zeros when it is missing
Bump(counts, sector, zero, field, by, net_field, net_by) ==
    LET old == GetOr(counts, sector, zero)
    IN  Put(counts, sector,
            [old EXCEPT ![field] = @ + by, ![net_field] = @ + net_by])

\* one of the two loops of _compute_sector_flows over one fund's positions:
\* seen is the fund's seen_sectors_buy or seen_sectors_sell
RECURSIVE CountSectors(_, _, _, _, _)
CountSectors(counts, positions, seen, field, net_by) ==
    IF positions = <<>> THEN counts
    ELSE LET sector == SectorOfPosition(Head(positions))
         IN  IF sector \in seen
             THEN CountSectors(counts, Tail(positions), seen, field, net_by)
             ELSE CountSectors(
                      Bump(counts, sector, [buying |-> 0, selling |-> 0, net |-> 0],
                           field, 1, "net", net_by),
                      Tail(positions), seen \cup {sector}, field, net_by)

RECURSIVE _compute_sector_flows_from(_, _)
_compute_sector_flows_from(counts, fund_diffs_left) ==
    IF fund_diffs_left = <<>> THEN counts
    ELSE LET d == Head(fund_diffs_left)
             bought == CountSectors(counts, d.new_positions \o d.added_positions,
                                    {}, "buying", 1)
             sold == CountSectors(bought, d.exited_positions \o d.trimmed_positions,
                                  {}, "selling", 0 - 1)
         IN  _compute_sector_flows_from(sold, Tail(fund_diffs_left))

\* sector flows that count every position, not every fund, once
_compute_sector_flows_PerPosition(diffs) ==
    LET RECURSIVE Walk(_, _)
        Walk(counts, left) ==
            IF left = <<>> THEN counts
            ELSE LET d == Head(left)
                     RECURSIVE Each(_, _, _, _)
                     Each(c, positions, field, net_by) ==
                        IF positions = <<>> THEN c
                        ELSE Each(Bump(c, SectorOfPosition(Head(positions)),
                                       [buying |-> 0, selling |-> 0, net |-> 0],
                                       field, 1, "net", net_by),
                                  Tail(positions), field, net_by)
                 IN  Walk(Each(Each(counts, d.new_positions \o d.added_positions,
                                    "buying", 1),
                               d.exited_positions \o d.trimmed_positions,
                               "selling", 0 - 1),
                          Tail(left))
    IN  Walk(<<>>, diffs)

_compute_sector_flows(diffs) == _compute_sector_flows_from(<<>>, diffs)

\* a trimmed position contributing its signed value change
DollarValue_Signed(pos, kind) ==
    CASE kind = "buy" -> pos.current_value_thousands
      [] kind = "exit" -> pos.prior_value_thousands
      [] kind = "trim" -> pos.value_change_thousands

\* one loop of _compute_sector_dollar_flows: kind says which value a
\* position contributes
DollarValue(pos, kind) ==
    CASE kind = "buy" -> pos.current_value_thousands
      [] kind = "exit" -> pos.prior_value_thousands
      [] kind = "trim" -> Abs(pos.value_change_thousands)

RECURSIVE AddDollars(_, _, _)
AddDollars(flows, positions, kind) ==
    IF positions = <<>> THEN flows
    ELSE LET val == DollarValue(Head(positions), kind)
         IN  AddDollars(
                 Bump(flows, SectorOfPosition(Head(positions)),
                      [buying_k |-> 0, selling_k |-> 0, net_k |-> 0],
                      IF kind = "buy" THEN "buying_k" ELSE "selling_k", val,
                      "net_k", IF kind = "buy" THEN val ELSE 0 - val),
                 Tail(positions), kind)

RECURSIVE _compute_sector_dollar_flows_from(_, _)
_compute_sector_dollar_flows_from(flows, fund_diffs_left) ==
    IF fund_diffs_left = <<>> THEN flows
    ELSE LET d == Head(fund_diffs_left)
             f1 == AddDollars(flows, d.new_positions \o d.added_positions, "buy")
             f2 == AddDollars(f1, d.exited_positions, "exit")
             f3 == AddDollars(f2, d.trimmed_positions, "trim")
         IN  _compute_sector_dollar_flows_from(f3, Tail(fund_diffs_left))

_compute_sector_dollar_flows(diffs) == _compute_sector_dollar_flows_from(<<>>, diffs)

CrowdingThresholdPct == Frac(5, 1)

\* whether the loop of _compute_crowding_risks appends a record for the key
IsCrowdingRisk(m, key, sector_data) ==
    LET fs == FloatSharesOf(sector_data, m.cusip_metadata[key].ticker)
        agg_shares == GetOr(m.cusip_shares, key, 0)
    IN  /\ fs # None
        /\ agg_shares > 0
        /\ ~FracLT(RoundedFloatPct(agg_shares, fs[1]), CrowdingThresholdPct)

MakeRisk(m, key, sector_data) ==
    LET meta == m.cusip_metadata[key]
        fs == FloatSharesOf(sector_data, meta.ticker)
        agg_shares == GetOr(m.cusip_shares, key, 0)
    IN  [cusip |-> key,
         float_shares |-> fs,
         float_ownership_pct |-> Some(RoundedFloatPct(agg_shares, fs[1])),
         ticker |-> meta.ticker,
         sector |-> meta.sector,
         funds_initiated |-> <<>>,
         funds_added |-> <<>>,
         funds_trimmed |-> <<>>,
         funds_exited |-> <<>>,
         net_fund_sentiment |-> 0,
         aggregate_value_thousands |-> GetOr(m.cusip_values, key, 0),
         aggregate_shares |-> agg_shares]

FloatPctDesc(a, b) == FracGT(a.float_ownership_pct[1], b.float_ownership_pct[1])

_compute_crowding_risks(m, sector_data) ==
    IF ~HasSectorData(sector_data) THEN <<>>
    ELSE LET keys == SelectSeq(m.metadata_keys,
                               LAMBDA k : IsCrowdingRisk(m, k, sector_data))
             risks == [i \in DOMAIN keys |-> MakeRisk(m, keys[i], sector_data)]
         IN  StableSort(risks, [i, j \in DOMAIN risks |-> FloatPctDesc(risks[i], risks[j])])

aggregate_signals(diffs, min_funds_for_crowd, min_funds_for_consensus, sector_data) ==
    LET m == BuildMaps(EmptyMaps, diffs)
        trades == [i \in DOMAIN m.action_keys |->
                      MakeTrade(m, m.action_keys[i], sector_data)]
        crowded == SelectSeq(trades, LAMBDA t : IsCrowded(t, min_funds_for_crowd))
        consensus == SelectSeq(trades, LAMBDA t : IsConsensus(t, min_funds_for_consensus))
        divkeys == SelectSeq(m.action_keys, LAMBDA k : IsDivergence(m.cusip_actions[k]))
        divergences == [i \in DOMAIN divkeys |-> MakeDivergence(m, divkeys[i])]
    IN  [crowded_trades |->
            StableSort(crowded, [i, j \in DOMAIN crowded |-> NetSentimentDesc(crowded[i], crowded[j])]),
         divergences |->
            StableSort(divergences, [i, j \in DOMAIN divergences |-> DivergenceSizeDesc(divergences[i], divergences[j])]),
         consensus_initiations |->
            StableSort(consensus, [i, j \in DOMAIN consensus |-> InitiatedCountDesc(consensus[i], consensus[j])]),
         sector_flows |-> _compute_sector_flows(diffs),
         sector_dollar_flows |-> _compute_sector_dollar_flows(diffs),
         crowding_risks |-> _compute_crowding_risks(m, sector_data),
         funds_analyzed |-> Len(diffs)]

(***************************************************************************)
(* core/models.py: FundBaseline; core/aggregator.py: compute_top_findings  *)
(* A finding is its category, score and ticker; headline and detail are    *)
(* display strings.                                                        *)
(***************************************************************************)
\* sign of a/b - c/d for b, d > 0, by the continued fractions of both: no
\* product is formed, whatever the size of the numbers
RECURSIVE CmpRatio(_, _, _, _)
CmpRatio(a, b, c, d) ==
    LET qa == a \div b
        qc == c \div d
        ra == a % b
        rc == c % d
    IN  IF qa # qc THEN (IF qa < qc THEN 0 - 1 ELSE 1)
        ELSE IF ra = 0 \/ rc = 0
             THEN (IF ra = rc THEN 0 ELSE IF ra = 0 THEN 0 - 1 ELSE 1)
             ELSE CmpRatio(d, rc, b, ra)

FracCmp(x, y) == CmpRatio(x[1], x[2], y[1], y[2])
FracAbs(x) == Frac(Abs(x[1]), x[2])
FracMul(x, y) == Frac(x[1] * y[1], x[2] * y[2])
FracDiv(x, y) == Frac(x[1] * y[2], x[2] * y[1])
FracAddInt(k, x) == Frac(k * x[2] + x[1], x[2])

\* the division carried out whatever std is
ZScore_Unguarded(x, mean, std) == FracDiv(FracSub(x, mean), std)

\* (x - mean) / std, or 0.0 when std == 0
ZScore(x, mean, std) ==
    IF std[1] = 0 THEN Frac(0, 1) ELSE FracDiv(FracSub(x, mean), std)

activity_zscore(bl, current_activity) ==
    ZScore(Frac(current_activity, 1), bl.activity_mean, bl.activity_std)
hhi_zscore(bl, current_hhi_change) ==
    ZScore(FracAbs(current_hhi_change), bl.hhi_change_mean, bl.hhi_change_std)
new_position_zscore(bl, current_max_weight) ==
    ZScore(current_max_weight, bl.max_new_weight_mean, bl.max_new_weight_std)

_baseline_multiplier(zscore) ==
    IF FracCmp(zscore, Frac(1, 2)) < 0 THEN Frac(5, 10)
    ELSE IF FracCmp(zscore, Frac(1, 1)) < 0 THEN Frac(8, 10)
    ELSE IF FracCmp(zscore, Frac(3, 2)) < 0 THEN Frac(10, 10)
    ELSE IF FracCmp(zscore, Frac(2, 1)) < 0 THEN Frac(13, 10)
    ELSE Frac(16, 10)

\* `if baselines and d.fund.cik in baselines`: baselines is None or a dict
HasBaseline(baselines, fund) ==
    baselines # None /\ fund \in DOMAIN baselines[1]

\* display_label: the ticker, or else the issuer's name (here the issuer
\* part of the CUSIP stands for it)
display_label(x) == IF x.ticker # NONE THEN x.ticker ELSE x.cusip[1]

\* a headline is the label or fund name it starts with and its wording
Headline(subject, wording) == [subject |-> subject, wording |-> wording]

Finding(category, headline, score, ticker) ==
    [category |-> category, headline |-> headline, score |-> score, ticker |-> ticker]

\* 1. consensus initiations
ConsensusFindings(signals_arg) ==
    IF signals_arg = None THEN <<>>
    ELSE LET top == Take(signals_arg[1].consensus_initiations, 3)
         IN  [i \in DOMAIN top |->
                 Finding("crowded_buy",
                         Headline(display_label(top[i]), "funds initiated"),
                         Frac(100 + Len(top[i].funds_initiated) * 10, 1),
                         top[i].ticker)]

\* crowded trades reported whether or not they are covered as consensus
CrowdedFindings_NoSkip(signals_arg) ==
    IF signals_arg = None THEN <<>>
    ELSE LET top == Take(signals_arg[1].crowded_trades, 2)
         IN  [i \in DOMAIN top |->
                 Finding("crowded_buy",
                         Headline(display_label(top[i]), "funds buying"),
                         Frac(80 + top[i].net_fund_sentiment * 5, 1),
                         top[i].ticker)]

\* 2. crowded trades not already covered as consensus
CrowdedFindings(signals_arg) ==
    IF signals_arg = None THEN <<>>
    ELSE LET covered == {c.cusip : c \in
                            {Take(signals_arg[1].consensus_initiations, 3)[i] :
                                i \in DOMAIN Take(signals_arg[1].consensus_initiations, 3)}}
             top == SelectSeq(Take(signals_arg[1].crowded_trades, 2),
                              LAMBDA ct : ct.cusip \notin covered)
         IN  [i \in DOMAIN top |->
                 Finding("crowded_buy",
                         Headline(display_label(top[i]), "funds buying"),
                         Frac(80 + top[i].net_fund_sentiment * 5, 1),
                         top[i].ticker)]

\* 3. top divergence
DivergenceFindings(signals_arg) ==
    IF signals_arg = None \/ signals_arg[1].divergences = <<>> THEN <<>>
    ELSE LET div == signals_arg[1].divergences[1]
         IN  <<Finding("divergence",
                       Headline(display_label(div), "funds disagree"),
                       Frac(75 + Len(div.initiated_by) + Len(div.exited_by), 1),
                       div.ticker)>>

\* a score multiplied by the multiplier whether or not the fund has a baseline
Adjusted_Always(base_score, baselines, fund, zscore) ==
    FracMul(base_score, _baseline_multiplier(zscore))

\* a score multiplied by the baseline multiplier of the fund, if it has one
Adjusted(base_score, baselines, fund, zscore) ==
    IF HasBaseline(baselines, fund)
    THEN FracMul(base_score, _baseline_multiplier(zscore))
    ELSE base_score

MoveCount(d) ==
    Len(d.new_positions) + Len(d.exited_positions)
    + Cardinality({i \in DOMAIN d.added_positions : is_significant_add(d.added_positions[i])})
    + Cardinality({i \in DOMAIN d.trimmed_positions : is_significant_trim(d.trimmed_positions[i])})

\* 4. most active fund
ActivityFindings(diffs, baselines) ==
    LET activity == StableSort(diffs,
                       [i, j \in DOMAIN diffs |-> MoveCount(diffs[i]) > MoveCount(diffs[j])])
    IN  IF activity # <<>> /\ MoveCount(activity[1]) > 0
        THEN LET d == activity[1]
                 count == MoveCount(d)
                 base_score == Frac(40 + (IF count < 20 THEN count ELSE 20), 1)
             IN  <<Finding("activity",
                           Headline(d.fund, "most active"),
                           Adjusted(base_score, baselines, d.fund,
                                    IF HasBaseline(baselines, d.fund)
                                    THEN activity_zscore(baselines[1][d.fund], count)
                                    ELSE Frac(0, 1)),
                           NONE)>>
        ELSE <<>>

\* (fund, position) for every new position, in the order of the two loops
RECURSIVE NewPairs(_)
NewPairs(diffs) ==
    IF diffs = <<>> THEN <<>>
    ELSE [i \in DOMAIN Head(diffs).new_positions |->
             [fund |-> Head(diffs).fund, pos |-> Head(diffs).new_positions[i]]]
         \o NewPairs(Tail(diffs))

\* best_new and best_new_wt after the loops
RECURSIVE BestNew(_, _, _)
BestNew(pairs, best_new, best_new_wt) ==
    IF pairs = <<>> THEN [best_new |-> best_new, best_new_wt |-> best_new_wt]
    ELSE IF FracGT(Head(pairs).pos.current_weight_pct, best_new_wt)
         THEN BestNew(Tail(pairs), Some(Head(pairs)), Head(pairs).pos.current_weight_pct)
         ELSE BestNew(Tail(pairs), best_new, best_new_wt)

\* the biggest new position reported whatever its weight
NewPositionFindings_NoGate(diffs, baselines) ==
    LET b == BestNew(NewPairs(diffs), None, Frac(0, 1))
    IN  IF b.best_new # None
        THEN <<Finding("new_position",
                       Headline(b.best_new[1].fund, "initiated"),
                       Frac(55 * b.best_new_wt[2] + 5 * b.best_new_wt[1], b.best_new_wt[2]),
                       b.best_new[1].pos.ticker)>>
        ELSE <<>>

\* 5. biggest single new position by weight
NewPositionFindings(diffs, baselines) ==
    LET b == BestNew(NewPairs(diffs), None, Frac(0, 1))
    IN  IF b.best_new # None /\ FracGE(b.best_new_wt, Frac(1, 1))
        THEN LET fund == b.best_new[1].fund
                 base_score == Frac(55 * b.best_new_wt[2] + 5 * b.best_new_wt[1],
                                    b.best_new_wt[2])
             IN  <<Finding("new_position",
                           Headline(fund, "initiated"),
                           Adjusted(base_score, baselines, fund,
                                    IF HasBaseline(baselines, fund)
                                    THEN new_position_zscore(baselines[1][fund], b.best_new_wt)
                                    ELSE Frac(0, 1)),
                           b.best_new[1].pos.ticker)>>
        ELSE <<>>

\* 35 + min(abs(hhi_change) * 5000, 20)
ConcentrationScore(hhi_change) ==
    LET shift == FracAbs(hhi_change)
    IN  IF FracCmp(shift, Frac(20, 5000)) <= 0
        THEN FracAddInt(35, Frac(shift[1] * 5000, shift[2]))
        ELSE Frac(35 + 20, 1)

\* 6. biggest concentration shift
ConcentrationFindings(diffs, baselines) ==
    LET conc_shifts == StableSort(diffs,
                          [i, j \in DOMAIN diffs |->
                              FracCmp(FracAbs(diffs[i].hhi_change),
                                      FracAbs(diffs[j].hhi_change)) > 0])
    IN  IF conc_shifts # <<>>
           /\ FracCmp(FracAbs(conc_shifts[1].hhi_change), Frac(5, 1000)) > 0
        THEN LET d == conc_shifts[1]
             IN  <<Finding("concentration",
                           Headline(d.fund, "portfolio concentrating or diversifying"),
                           Adjusted(ConcentrationScore(d.hhi_change), baselines, d.fund,
                                    IF HasBaseline(baselines, d.fund)
                                    THEN hhi_zscore(baselines[1][d.fund], d.hhi_change)
                                    ELSE Frac(0, 1)),
                           NONE)>>
        ELSE <<>>

ScoreDesc(a, b) == FracCmp(a.score, b.score) > 0

\* the candidates, returned as they were appended
compute_top_findings_Unsorted(diffs, signals_arg, n, baselines) ==
    IF diffs = <<>> THEN <<>>
    ELSE Take(ConsensusFindings(signals_arg) \o CrowdedFindings(signals_arg)
                \o DivergenceFindings(signals_arg) \o ActivityFindings(diffs, baselines)
                \o NewPositionFindings(diffs, baselines)
                \o ConcentrationFindings(diffs, baselines), n)

\* n >= 0: candidates[:n]
compute_top_findings(diffs, signals_arg, n, baselines) ==
    IF diffs = <<>> THEN <<>>
    ELSE LET candidates ==
                 ConsensusFindings(signals_arg) \o CrowdedFindings(signals_arg)
                 \o DivergenceFindings(signals_arg) \o ActivityFindings(diffs, baselines)
                 \o NewPositionFindings(diffs, baselines)
                 \o ConcentrationFindings(diffs, baselines)
         IN  Take(StableSort(candidates,
                             [i, j \in DOMAIN candidates |->
                                 ScoreDesc(candidates[i], candidates[j])]), n)

(***************************************************************************)
(* Inputs.  A quarter's holdings list is written from a table that gives,  *)
(* for each position key, the shares reported (or Absent).  Tickers and    *)
(* sectors are what main.py's enrichment loop sets: one per CUSIP.         *)
(***************************************************************************)
MaxShares == 2
\* the table entry of a key the quarter does not report
Absent == 0 - 1

CUSIP_X == <<"XXXXXX", "100">>
CUSIP_Y == <<"YYYYYY", "100">>
CUSIP_W == <<"WWWWWW", "100">>

TickerOf(cusip) ==
    IF cusip = CUSIP_X THEN "XTK" ELSE IF cusip = CUSIP_W THEN "WTK" ELSE NONE
SectorOf(cusip) == IF cusip \in {CUSIP_X, CUSIP_W} THEN "Technology" ELSE NONE

\* value in thousands reported per share-count step, by kind of position
PriceOf(key) == IF key[2] = NONE THEN 8 ELSE IF key[2] = "PUT" THEN 1 ELSE 2

MakeHolding(key, shares) ==
    Holding(key[1], key[2], PriceOf(key) * (shares + 1), shares, "SH",
            TickerOf(key[1]), SectorOf(key[1]))

RECURSIVE HoldingsFrom(_, _)
HoldingsFrom(keys, table) ==
    IF keys = <<>> THEN <<>>
    ELSE (IF Head(table) = Absent THEN <<>>
          ELSE <<MakeHolding(Head(keys), Head(table))>>)
         \o HoldingsFrom(Tail(keys), Tail(table))

DiffKeys == <<<<CUSIP_X, NONE>>, <<CUSIP_X, "PUT">>, <<CUSIP_Y, "CALL">>>>
DiffTables ==
    {t \in [1..3 -> {Absent} \cup 0..MaxShares] : t[3] \in {Absent, 1}}

\* An explicit total_value_thousands passed to FundHoldings(...); 0 is the
\* field's default.
ExplicitTotals == {0, 1000}

\* A second row for the equity key ahead of the table's rows (a filing may
\* list one CUSIP on several rows).
ExtraRows == {<<>>, <<MakeHolding(DiffKeys[1], 1)>>}

FundNames == <<"Fund A", "Fund B", "Fund C">>

(***************************************************************************)
(* SpecDiff: one call of compute_fund_diff on every pair of inputs         *)
(***************************************************************************)
InitDiff ==
    /\ \E tc \in DiffTables, tp \in DiffTables, extra \in ExtraRows, total \in ExplicitTotals :
          /\ current = Some(FundHoldings(FundNames[1], extra \o HoldingsFrom(DiffKeys, tc), total))
          /\ prior = Some(FundHoldings(FundNames[1], HoldingsFrom(DiffKeys, tp), 0))
    /\ diff = NoResult
    /\ fund_diffs = <<>> /\ agg_args = NoResult /\ signals = NoResult
    /\ opt_call = NoResult /\ opt_result = NoResult
    /\ pd_args = NoResult /\ pd = NoResult /\ pd_read = NoResult
    /\ conc_args = NoResult /\ conc = NoResult
    /\ sector_map = NoResult /\ top_args = NoResult /\ findings = NoResult
    /\ IdleData

ComputeFundDiff ==
    /\ diff = NoResult
    /\ \E key_order \in IterationOrders(AllKeys(current[1], prior[1])) :
          diff' = Some(compute_fund_diff(current[1], prior[1], key_order))
    /\ UNCHANGED <<data_vars, current, prior, agg_vars, opt_vars, pd_vars, conc_vars, top_vars>>

NextDiff == ComputeFundDiff

SpecDiff == InitDiff /\ [][NextDiff]_vars

(***************************************************************************)
(* SpecOpt: one call of classify_option on every input below.  The         *)
(* holdings list is the holding under test, optionally an equity position  *)
(* of the same issuer, and filler positions of other issuers: options      *)
(* worth 1 and equities worth 50000.                                       *)
(***************************************************************************)
MaxFillerOptions == 20
MaxFillerEquities == 10

FillerOptionCounts == {0} \cup ((MaxFillerOptions - 2)..MaxFillerOptions)
FillerEquityCounts == {0, MaxFillerEquities - 1, MaxFillerEquities}

OptionValues == {1, 3, 5, 10000}
OptionAums == {0, 1000, 4000000}
PriorOptionValues == {0, 2, 4}

CUSIP_X2 == <<"XXXXXX", "200">>

\* the same-issuer equity rows tried: none, or one row
SameIssuerEquity ==
    {<<>>,
     <<Holding(CUSIP_X, NONE, 10, 1, "SH", NONE, NONE)>>,
     <<Holding(CUSIP_X2, NONE, 31, 1, "SH", NONE, NONE)>>,
     <<Holding(CUSIP_X, NONE, 31, 1, "PRN", NONE, NONE)>>,
     <<Holding(CUSIP_X, NONE, 100001, 1, "SH", NONE, NONE)>>}

FillerOptions(n) ==
    [i \in 1..n |-> Holding(<<"OPTION", ToString(i)>>, "CALL", 1, 1, "SH", NONE, NONE)]
FillerEquities(n) ==
    [i \in 1..n |-> Holding(<<"EQUITY", ToString(i)>>, NONE, 50000, 1, "SH", NONE, NONE)]

\* the arguments of one call: the holding under test, placed first or last
\* in the list
OptCall(h, first, no, ne, eq, aum, ct, pv) ==
    [holding |-> h,
     all_holdings |->
        IF first THEN <<h>> \o FillerOptions(no) \o FillerEquities(ne) \o eq
        ELSE FillerOptions(no) \o FillerEquities(ne) \o eq \o <<h>>,
     total_aum_thousands |-> aum,
     change_type |-> ct,
     prior_holding |->
        IF pv = Absent THEN None
        ELSE Some(Holding(h.cusip, h.put_call, pv, 1, "SH", NONE, NONE))]

InitOpt ==
    /\ \E pc \in {NONE, "PUT", "CALL"}, v \in OptionValues, first \in BOOLEAN,
          no \in FillerOptionCounts, ne \in FillerEquityCounts, eq \in SameIssuerEquity,
          aum \in OptionAums, ct \in PositionChangeType,
          pv \in {Absent} \cup PriorOptionValues :
            \* a holding that is no option is tried on the short lists only
            /\ pc = NONE => (first /\ ne = 0 /\ eq = <<>> /\ pv = Absent)
            /\ opt_call = Some(OptCall(Holding(CUSIP_X, pc, v, 1, "SH", NONE, NONE),
                                        first, no, ne, eq, aum, ct, pv))
    /\ opt_result = NoResult
    /\ current = NoResult /\ prior = NoResult /\ diff = NoResult
    /\ fund_diffs = <<>> /\ agg_args = NoResult /\ signals = NoResult
    /\ pd_args = NoResult /\ pd = NoResult /\ pd_read = NoResult
    /\ conc_args = NoResult /\ conc = NoResult
    /\ sector_map = NoResult /\ top_args = NoResult /\ findings = NoResult
    /\ IdleData

ClassifyOption ==
    /\ opt_result = NoResult
    /\ opt_result' = Some(classify_option(opt_call[1].holding, opt_call[1].all_holdings,
                            opt_call[1].total_aum_thousands, opt_call[1].change_type,
                            opt_call[1].prior_holding, DefaultAumThreshold))
    /\ UNCHANGED <<data_vars, opt_call, diff_vars, agg_vars, pd_vars, conc_vars, top_vars>>

NextOpt == ClassifyOption

SpecOpt == InitOpt /\ [][NextOpt]_vars

(***************************************************************************)
(* SpecPD: a PositionDiff constructed from keyword arguments, as the tests *)
(* do, and its two significance properties read.                           *)
(***************************************************************************)
PctChoices ==
    {Frac(1, 1), Frac(1, 2), Frac(49, 100), Frac(1, 10), Frac(0, 1),
     Frac(-59, 100), Frac(-3, 5), Frac(-7, 10), Frac(-1, 1)}
WeightChoices == {Frac(1, 10), Frac(24, 100), Frac(1, 4), Frac(40, 1)}

Optional(S) == {NotGiven} \cup {Some(x) : x \in S}

InitPD ==
    /\ \E ct \in PositionChangeType, pct \in Optional(PctChoices),
          cw \in Optional(WeightChoices), pw \in Optional(WeightChoices) :
            pd_args = Some([change_type |-> ct, shares_change_pct |-> pct,
                            current_weight_pct |-> cw, prior_weight_pct |-> pw])
    /\ pd = NoResult /\ pd_read = NoResult
    /\ current = NoResult /\ prior = NoResult /\ diff = NoResult
    /\ fund_diffs = <<>> /\ agg_args = NoResult /\ signals = NoResult
    /\ opt_call = NoResult /\ opt_result = NoResult
    /\ conc_args = NoResult /\ conc = NoResult
    /\ sector_map = NoResult /\ top_args = NoResult /\ findings = NoResult
    /\ IdleData

ConstructPositionDiff ==
    /\ pd = NoResult
    /\ pd' = Some(PositionDiffCtor(pd_args[1]))
    /\ UNCHANGED <<data_vars, pd_args, pd_read, diff_vars, agg_vars, opt_vars, conc_vars, top_vars>>

ReadSignificance ==
    /\ pd # NoResult /\ pd_read = NoResult
    /\ pd_read' = Some([is_significant_add |-> is_significant_add(pd[1]),
                         is_significant_trim |-> is_significant_trim(pd[1])])
    /\ UNCHANGED <<data_vars, pd_args, pd, diff_vars, agg_vars, opt_vars, conc_vars, top_vars>>

NextPD == ConstructPositionDiff \/ ReadSignificance

SpecPD == InitPD /\ [][NextPD]_vars

(***************************************************************************)
(* SpecAgg: main.py's loop over the funds, one compute_fund_diff per fund  *)
(* appended to fund_diffs, then one call of aggregate_signals.  The loop   *)
(* skips a fund with no current or no prior holdings, so every portfolio   *)
(* here is non-empty.                                                      *)
(***************************************************************************)
AggKeys == <<<<CUSIP_X, NONE>>, <<CUSIP_X, "PUT">>, <<CUSIP_Y, NONE>>>>

\* what a fund reports in one quarter: shares per key of AggKeys
AggPortfolios ==
    {<<1, Absent, Absent>>, <<2, Absent, Absent>>, <<Absent, 1, Absent>>,
     <<1, 1, Absent>>, <<Absent, Absent, 1>>, <<1, Absent, 1>>}

\* (min_funds_for_crowd, min_funds_for_consensus); both default to 3
MinFundsChoices == {<<3, 3>>, <<3, 2>>, <<2, 3>>, <<2, 2>>}

InitAgg ==
    /\ fund_diffs = <<>> /\ agg_args = NoResult /\ signals = NoResult
    /\ current = NoResult /\ prior = NoResult /\ diff = NoResult
    /\ opt_call = NoResult /\ opt_result = NoResult
    /\ pd_args = NoResult /\ pd = NoResult /\ pd_read = NoResult
    /\ conc_args = NoResult /\ conc = NoResult
    /\ sector_map = Some(<<>>) /\ top_args = NoResult /\ findings = NoResult
    /\ IdleData

\* One iteration of the loop over the funds.
AppendFundDiff ==
    /\ signals = NoResult
    /\ Len(fund_diffs) < Len(FundNames)
    /\ \E tc \in AggPortfolios, tp \in AggPortfolios :
          LET name == FundNames[Len(fund_diffs) + 1]
              cur == FundHoldings(name, HoldingsFrom(AggKeys, tc), 0)
              pri == FundHoldings(name, HoldingsFrom(AggKeys, tp), 0)
          IN  \E key_order \in IterationOrders(AllKeys(cur, pri)) :
                fund_diffs' = Append(fund_diffs, compute_fund_diff(cur, pri, key_order))
    /\ UNCHANGED <<data_vars, agg_args, signals, sector_map, diff_vars, opt_vars, pd_vars, conc_vars, top_vars>>

AggregateSignals ==
    /\ signals = NoResult
    /\ fund_diffs # <<>>
    /\ \E mins \in MinFundsChoices :
          /\ agg_args' = Some([min_funds_for_crowd |-> mins[1],
                               min_funds_for_consensus |-> mins[2]])
          /\ signals' = Some(aggregate_signals(fund_diffs, mins[1], mins[2], sector_map))
    /\ UNCHANGED <<data_vars, fund_diffs, sector_map, diff_vars, opt_vars, pd_vars, conc_vars, top_vars>>

NextAgg == AppendFundDiff \/ AggregateSignals

SpecAgg == InitAgg /\ [][NextAgg]_vars

(***************************************************************************)
(* SpecFlow: run_analysis with sector/float data.  Two funds hold equities *)
(* in round lots of 25 shares: two issuers with a resolved ticker and a    *)
(* sector, one with neither.  A lot's reported value differs between the   *)
(* quarters for the first issuer, so a position may shrink in shares and   *)
(* grow in value.                                                          *)
(***************************************************************************)
FlowKeys == <<<<CUSIP_X, NONE>>, <<CUSIP_W, NONE>>, <<CUSIP_Y, NONE>>>>

\* value in thousands of one lot, by issuer and quarter
LotValue(cusip, quarter) ==
    IF cusip = CUSIP_X THEN (IF quarter = "prior" THEN 3 ELSE 8)
    ELSE IF cusip = CUSIP_W THEN 8 ELSE 5

RECURSIVE LotHoldings(_, _, _)
LotHoldings(keys, table, quarter) ==
    IF keys = <<>> THEN <<>>
    ELSE (IF Head(table) = Absent THEN <<>>
          ELSE <<Holding(Head(keys)[1], Head(keys)[2],
                         LotValue(Head(keys)[1], quarter) * Head(table),
                         25 * Head(table), "SH",
                         TickerOf(Head(keys)[1]), SectorOf(Head(keys)[1]))>>)
         \o LotHoldings(Tail(keys), Tail(table), quarter)

\* what a fund reports in one quarter: lots per key of FlowKeys
FlowPortfolios ==
    {<<1, Absent, Absent>>, <<2, Absent, Absent>>, <<1, 1, Absent>>,
     <<Absent, 2, Absent>>, <<2, 2, Absent>>, <<3, 2, Absent>>,
     <<Absent, Absent, 1>>}

FloatData(float_shares) == [float_shares |-> float_shares]

\* what cache.get_sector_info_bulk may return: best effort, an entry or its
\* float_shares may be missing
SectorMaps ==
    {<<>>,
     [t \in {"XTK", "WTK"} |->
         IF t = "XTK" THEN FloatData(Some(1000)) ELSE FloatData(None)],
     [t \in {"XTK"} |-> FloatData(Some(1001))],
     [t \in {"XTK", "WTK"} |->
         IF t = "XTK" THEN FloatData(Some(1000)) ELSE FloatData(Some(500))]}

FlowFunds == <<"Fund A", "Fund B">>

InitFlow ==
    /\ \E sm \in SectorMaps : sector_map = Some(sm)
    /\ fund_diffs = <<>> /\ agg_args = NoResult /\ signals = NoResult
    /\ current = NoResult /\ prior = NoResult /\ diff = NoResult
    /\ opt_call = NoResult /\ opt_result = NoResult
    /\ pd_args = NoResult /\ pd = NoResult /\ pd_read = NoResult
    /\ conc_args = NoResult /\ conc = NoResult
    /\ top_args = NoResult /\ findings = NoResult
    /\ IdleData

\* One iteration of the loop over the funds.
AppendLotFundDiff ==
    /\ signals = NoResult
    /\ Len(fund_diffs) < Len(FlowFunds)
    /\ \E tc \in FlowPortfolios, tp \in FlowPortfolios :
          LET name == FlowFunds[Len(fund_diffs) + 1]
              cur == FundHoldings(name, LotHoldings(FlowKeys, tc, "current"), 0)
              pri == FundHoldings(name, LotHoldings(FlowKeys, tp, "prior"), 0)
          IN  \E key_order \in IterationOrders(AllKeys(cur, pri)) :
                fund_diffs' = Append(fund_diffs, compute_fund_diff(cur, pri, key_order))
    /\ UNCHANGED <<data_vars, agg_args, signals, sector_map, diff_vars, opt_vars, pd_vars,
                   conc_vars, top_vars>>

NextFlow == AppendLotFundDiff \/ AggregateSignals

SpecFlow == InitFlow /\ [][NextFlow]_vars

(***************************************************************************)
(* SpecTop: the dashboard's findings.  compute_top_findings is called on   *)
(* the fund diffs and the signals of the analysis run (None while they are *)
(* not computed), with or without baselines.                               *)
(***************************************************************************)
TopPortfolios ==
    {<<1, Absent, Absent>>, <<2, Absent, Absent>>, <<1, 1, Absent>>,
     <<Absent, Absent, 1>>}

\* a current quarter may also hold a large position beside a small one, so
\* that a new position can weigh less than 1% of the fund
TopCurrentPortfolios == TopPortfolios \cup {<<100, Absent, 1>>}

\* the n of a call; the dashboard passes 5
TopCounts == {0, 1, 2, 5}

FundBaseline(activity_mean, activity_std, hhi_change_mean, hhi_change_std, max_new_weight_mean, max_new_weight_std) ==
    [activity_mean |-> activity_mean, activity_std |-> activity_std,
     hhi_change_mean |-> hhi_change_mean, hhi_change_std |-> hhi_change_std,
     max_new_weight_mean |-> max_new_weight_mean,
     max_new_weight_std |-> max_new_weight_std]

\* baselines: None, or a dict with a baseline for the first fund only; the
\* second dict is the baseline of a history that never varied (every std 0)
BaselineChoices ==
    {None,
     Some([f \in {FlowFunds[1]} |->
             FundBaseline(Frac(1, 2), Frac(1, 1), Frac(0, 1), Frac(1, 4),
                          Frac(50, 1), Frac(40, 1))]),
     Some([f \in {FlowFunds[1]} |->
             FundBaseline(Frac(2, 1), Frac(0, 1), Frac(0, 1), Frac(0, 1),
                          Frac(50, 1), Frac(0, 1))])}

InitTop ==
    /\ sector_map = Some(<<>>)
    /\ fund_diffs = <<>> /\ agg_args = NoResult /\ signals = NoResult
    /\ current = NoResult /\ prior = NoResult /\ diff = NoResult
    /\ opt_call = NoResult /\ opt_result = NoResult
    /\ pd_args = NoResult /\ pd = NoResult /\ pd_read = NoResult
    /\ conc_args = NoResult /\ conc = NoResult
    /\ top_args = NoResult /\ findings = NoResult
    /\ IdleData

\* One iteration of the loop over the funds.
AppendTopFundDiff ==
    /\ signals = NoResult /\ findings = NoResult
    /\ Len(fund_diffs) < Len(FlowFunds)
    /\ \E tc \in TopCurrentPortfolios, tp \in TopPortfolios :
          LET name == FlowFunds[Len(fund_diffs) + 1]
              cur == FundHoldings(name, LotHoldings(FlowKeys, tc, "current"), 0)
              pri == FundHoldings(name, LotHoldings(FlowKeys, tp, "prior"), 0)
          IN  \E key_order \in IterationOrders(AllKeys(cur, pri)) :
                fund_diffs' = Append(fund_diffs, compute_fund_diff(cur, pri, key_order))
    /\ UNCHANGED <<data_vars, agg_args, signals, sector_map, diff_vars, opt_vars, pd_vars,
                   conc_vars, top_vars>>

\* The dashboard renders the findings.
ComputeTopFindings ==
    /\ findings = NoResult
    /\ \E n \in TopCounts, baselines \in BaselineChoices :
          /\ top_args' = Some([n |-> n, baselines |-> baselines])
          /\ findings' = Some(compute_top_findings(fund_diffs, signals, n, baselines))
    /\ UNCHANGED <<data_vars, agg_vars, diff_vars, opt_vars, pd_vars, conc_vars>>

NextTop == AppendTopFundDiff \/ AggregateSignals \/ ComputeTopFindings

SpecTop == InitTop /\ [][NextTop]_vars

(***************************************************************************)
(* SpecConc: the HHI of one holdings list, by the diff engine's            *)
(* _compute_hhi and by compute_portfolio_concentration, the total being    *)
(* the one FundHoldings computes for the list.                             *)
(***************************************************************************)
InitConc ==
    /\ \E t \in DiffTables, extra \in ExtraRows :
          LET fh == FundHoldings(FundNames[1], extra \o HoldingsFrom(DiffKeys, t), 0)
          IN  conc_args = Some([holdings |-> fh.holdings,
                                total_value_k |-> fh.total_value_thousands])
    /\ conc = NoResult
    /\ current = NoResult /\ prior = NoResult /\ diff = NoResult
    /\ fund_diffs = <<>> /\ agg_args = NoResult /\ signals = NoResult
    /\ opt_call = NoResult /\ opt_result = NoResult
    /\ pd_args = NoResult /\ pd = NoResult /\ pd_read = NoResult
    /\ sector_map = NoResult /\ top_args = NoResult /\ findings = NoResult
    /\ IdleData

ComputeConcentration ==
    /\ conc = NoResult
    /\ conc' = Some([diff_engine_hhi |->
                         _compute_hhi(conc_args[1].holdings, conc_args[1].total_value_k),
                     concentration |->
                         compute_portfolio_concentration(conc_args[1].holdings,
                                                         conc_args[1].total_value_k)])
    /\ UNCHANGED <<data_vars, conc_args, diff_vars, agg_vars, opt_vars, pd_vars, top_vars>>

NextConc == ComputeConcentration

SpecConc == InitConc /\ [][NextConc]_vars

(***************************************************************************)
(* data/store.py: the holdings table                                       *)
(***************************************************************************)
\* SQL NULL, the stored form of put_call = None
NULL == NONE

\* FundHoldings as store_holdings reads it: fund.cik, quarter_end, holdings
FiledHoldings(cik, quarter_end, holdings) ==
    [cik |-> cik, quarter_end |-> quarter_end, holdings |-> holdings]

\* one tuple of `rows` in store_holdings
HoldingRow(cik, quarter_end, h) ==
    [cik |-> cik, quarter_end |-> quarter_end, cusip |-> h.cusip,
     put_call |-> h.put_call, value_thousands |-> h.value_thousands,
     shares_or_prn_amt |-> h.shares_or_prn_amt, sh_prn_type |-> h.sh_prn_type]

\* UNIQUE(cik, quarter_end, cusip, put_call) treating NULLs as equal
UniqueConflict_NullsEqual(old, new) ==
    /\ old.cik = new.cik /\ old.quarter_end = new.quarter_end
    /\ old.cusip = new.cusip /\ old.put_call = new.put_call

\* UNIQUE(cik, quarter_end, cusip, put_call): whether the new row violates
\* the constraint against a stored row. SQLite holds two NULLs distinct in
\* a UNIQUE constraint, so a row whose put_call is NULL conflicts with none.
UniqueConflict(old, new) ==
    /\ old.cik = new.cik /\ old.quarter_end = new.quarter_end
    /\ old.cusip = new.cusip
    /\ old.put_call # NULL /\ new.put_call # NULL /\ old.put_call = new.put_call

\* INSERT OR REPLACE INTO holdings: the conflicting rows are deleted, the
\* new row gets the next id
InsertOrReplace(table, row) ==
    Append(SelectSeq(table, LAMBDA old : ~UniqueConflict(old, row)), row)

RECURSIVE ExecuteMany(_, _)
ExecuteMany(table, rows) ==
    IF rows = <<>> THEN table
    ELSE ExecuteMany(InsertOrReplace(table, Head(rows)), Tail(rows))

\* store_holdings(fund_holdings): the table afterwards
store_holdings(table, fund_holdings) ==
    ExecuteMany(table,
                [i \in DOMAIN fund_holdings.holdings |->
                    HoldingRow(fund_holdings.cik, fund_holdings.quarter_end,
                               fund_holdings.holdings[i])])

\* get_holdings(cik, quarter_end): ORDER BY value_thousands DESC, rows of
\* equal value in id order
get_holdings(table, cik, quarter_end) ==
    LET rows == SelectSeq(table, LAMBDA r : r.cik = cik /\ r.quarter_end = quarter_end)
        sorted == StableSort(rows, [i, j \in DOMAIN rows |->
                                      rows[i].value_thousands > rows[j].value_thousands])
    IN  [i \in DOMAIN sorted |->
            Holding(sorted[i].cusip, sorted[i].put_call, sorted[i].value_thousands,
                    sorted[i].shares_or_prn_amt, sorted[i].sh_prn_type, NONE, NONE)]

(***************************************************************************)
(* SpecStore: a sequence of store_holdings calls on an empty database      *)
(***************************************************************************)
MaxStores == 3

IdleCore ==
    /\ current = NoResult /\ prior = NoResult /\ diff = NoResult
    /\ fund_diffs = <<>> /\ agg_args = NoResult /\ signals = NoResult
    /\ opt_call = NoResult /\ opt_result = NoResult
    /\ pd_args = NoResult /\ pd = NoResult /\ pd_read = NoResult
    /\ conc_args = NoResult /\ conc = NoResult
    /\ sector_map = NoResult /\ top_args = NoResult /\ findings = NoResult

StoreCiks == {"Fund A", "Fund B"}
StoreQuarters == {1, 2}
\* the filings stored: an equity, an equity with a put on it, a put alone
StoredPortfolios ==
    {<<Holding(CUSIP_X, NONE, 5, 10, "SH", NONE, NONE)>>,
     <<Holding(CUSIP_X, NONE, 5, 10, "SH", NONE, NONE),
       Holding(CUSIP_X, "PUT", 2, 10, "SH", NONE, NONE)>>,
     <<Holding(CUSIP_Y, "PUT", 3, 10, "SH", NONE, NONE)>>,
     <<Holding(CUSIP_X, NONE, 7, 12, "SH", NONE, NONE)>>}

InitStore ==
    /\ IdleCore /\ IdleResolve /\ IdleFetch /\ IdleBase
    /\ db_holdings = <<>> /\ store_args = NoResult /\ store_calls = 0

StoreHoldings ==
    /\ store_calls < MaxStores
    /\ \E cik \in StoreCiks, q \in StoreQuarters, hs \in StoredPortfolios :
          LET fund_holdings == FiledHoldings(cik, q, hs)
          IN  /\ db_holdings' = store_holdings(db_holdings, fund_holdings)
              /\ store_args' = Some(fund_holdings)
    /\ store_calls' = store_calls + 1
    /\ UNCHANGED <<core_vars, resolve_vars, fetch_vars, base_vars>>

NextStore == StoreHoldings

SpecStore == InitStore /\ [][NextStore]_vars

(***************************************************************************)
(* data/cusip_resolver.py over the store-backed cache (data/cache.py)      *)
(***************************************************************************)
\* a cache read that tells a row with a NULL ticker from no row
get_cusip_ticker_MissKnown(map, cusip) ==
    IF Has(map, cusip) THEN Some(map[cusip]) ELSE None

\* get_cusip_ticker(cusip), which cusip_cache_read returns: the ticker
\* column of the row, or None when there is no row. A NULL ticker is read
\* as None too.
get_cusip_ticker(map, cusip) ==
    IF Has(map, cusip) THEN (IF map[cusip] = NULL THEN None ELSE Some(map[cusip]))
    ELSE None

\* store_cusip_mapping(cusip, ticker, ...), which cusip_cache_write calls:
\* INSERT OR REPLACE on the primary key cusip
store_cusip_mapping(map, cusip, ticker) == Put(map, cusip, ticker)

\* what the service answers for one CUSIP: no data, or the best match
NoData == [found |-> FALSE, ticker |-> ""]
BestMatch(ticker) == [found |-> TRUE, ticker |-> ticker]
ServiceItems == {NoData, BestMatch(""), BestMatch("TKR")}

\* Python truthiness of a result value: neither None nor ""
Truthy(v) == v # NULL /\ v # ""

\* {k: v for k, v in result.items() if v}
Resolved(result) ==
    [c \in {k \in DOMAIN result : Truthy(result[k])} |-> result[c]]

\* the loop `for cusip in unique_cusips`: result after the cache reads
CacheHits(map, unique_cusips) ==
    [c \in {k \in unique_cusips : get_cusip_ticker(map, k) # None} |->
        get_cusip_ticker(map, c)[1]]
Unknown(map, unique_cusips) ==
    {k \in unique_cusips : get_cusip_ticker(map, k) = None}

\* the loop `for i, item in enumerate(data)` over the answer to one batch:
\* result[cusip] for the CUSIPs of the batch
BatchResult(result, batch, data) ==
    [c \in DOMAIN result \cup batch |->
        IF c \in batch
        THEN (IF data[c].found /\ data[c].ticker # "" THEN data[c].ticker ELSE NULL)
        ELSE result[c]]

RECURSIVE WriteAll(_, _, _)
\* the cache_write calls of that loop: the ticker of the best match, or
\* None for a miss
WriteAll(map, batch, data) ==
    IF batch = {} THEN map
    ELSE LET c == CHOOSE k \in batch : TRUE
         IN  WriteAll(store_cusip_mapping(map, c, IF data[c].found THEN data[c].ticker ELSE NULL),
                      batch \ {c}, data)

\* one more request for every CUSIP of the batch
Sent(log, batch) ==
    [c \in DOMAIN log \cup batch |-> GetOr(log, c, 0) + (IF c \in batch THEN 1 ELSE 0)]

(***************************************************************************)
(* SpecResolve: a sequence of resolve_cusips calls on one cache            *)
(***************************************************************************)
MaxResolves == 3

ResolveCusipSets == {{CUSIP_X}, {CUSIP_Y}, {CUSIP_X, CUSIP_Y}}
\* how a request ends: answered, or failed (HTTP error, rate limit,
\* exception), or refused as too large (413) with the retry in a smaller
\* batch answered or failed
RequestOutcomes == {"answered", "failed", "413 answered", "413 failed"}

InitResolve ==
    /\ IdleCore /\ IdleStore /\ IdleFetch /\ IdleBase
    /\ cusip_map = <<>> /\ lookups = <<>> /\ cached_miss = {}
    /\ resolved = NoResult /\ resolve_calls = 0

\* resolve_cusips(cusips, cache.cusip_cache_read, cache.cusip_cache_write);
\* the CUSIPs of a call fit one batch
ResolveCusips ==
    /\ resolve_calls < MaxResolves
    /\ resolve_calls' = resolve_calls + 1
    /\ \E unique_cusips \in ResolveCusipSets :
          LET result == CacheHits(cusip_map, unique_cusips)
              unknown == Unknown(cusip_map, unique_cusips)
          IN  IF unknown = {}
              THEN /\ resolved' = Some(Resolved(result))
                   /\ UNCHANGED <<cusip_map, lookups, cached_miss>>
              ELSE \E outcome \in RequestOutcomes, data \in [unknown -> ServiceItems] :
                      LET requests == IF outcome \in {"answered", "failed"}
                                      THEN Sent(lookups, unknown)
                                      ELSE Sent(Sent(lookups, unknown), unknown)
                      IN  /\ lookups' = requests
                          /\ IF outcome \in {"answered", "413 answered"}
                             THEN /\ cusip_map' = WriteAll(cusip_map, unknown, data)
                                  /\ cached_miss' = cached_miss \cup {c \in unknown : ~data[c].found}
                                  /\ resolved' = Some(Resolved(BatchResult(result, unknown, data)))
                             ELSE /\ UNCHANGED <<cusip_map, cached_miss>>
                                  /\ resolved' = Some(Resolved(result))
    /\ UNCHANGED <<core_vars, store_vars, fetch_vars, base_vars>>

NextResolve == ResolveCusips

SpecResolve == InitResolve /\ [][NextResolve]_vars

(***************************************************************************)
(* app/main.py: fetch_filings                                              *)
(***************************************************************************)
\* a filing is never found already processed
is_filing_processed_Never(index, filing) == FALSE

\* store.is_filing_processed(cik, accession_number): a row with
\* processed_at set; store_filing_index always sets it
is_filing_processed(index, filing) == filing \in index

\* store_filing_index(cik, accession_number, ...)
store_filing_index(index, filing) == index \cup {filing}

\* the steps of the loop body on one filing, in order; the body raises at
\* one of them or at none
BodySteps == <<"fetch", "parse", "store", "index">>
Completed == "none raised"
StepIndex(step) == CHOOSE i \in DOMAIN BodySteps : BodySteps[i] = step
\* whether the body got past the given step when it raised at `raised_at`
Past(step, raised_at) ==
    raised_at = Completed \/ StepIndex(step) < StepIndex(raised_at)

(***************************************************************************)
(* SpecFetch: fetch_filings run several times over the same funds          *)
(***************************************************************************)
MaxRuns == 3

\* `funds`, and what client.find_13f_filings lists for each: accession
\* numbers, as <<cik, accession_number>>
FetchFunds == <<"Fund A", "Fund B">>
FilingsOf(cik) ==
    IF cik = "Fund A" THEN <<<<"Fund A", "0001">>, <<"Fund A", "0002">>>>
    ELSE <<<<"Fund B", "0001">>>>

Count(bag, x) == GetOr(bag, x, 0)
Counted(bag, x) == Put(bag, x, Count(bag, x) + 1)

InitFetch ==
    /\ IdleCore /\ IdleStore /\ IdleResolve /\ IdleBase
    /\ filing_index = {} /\ stored_filings = {} /\ fetched = <<>> /\ raised = {}
    /\ fetch_runs = 0 /\ fetch_pos = NoResult /\ fetch_event = NoResult

\* the position after the last filing of fund i, or after an exception
\* caught in its try block: the next fund, or the return
NextFund(i) ==
    IF i < Len(FetchFunds) THEN Some([fund |-> i + 1, filing |-> 0]) ELSE NoResult
\* the position after filing j of fund i
NextFiling(i, j) ==
    IF j < Len(FilingsOf(FetchFunds[i])) THEN Some([fund |-> i, filing |-> j + 1])
    ELSE NextFund(i)

FilingAt(pos) == FilingsOf(FetchFunds[pos.fund])[pos.filing]

\* fetch_filings(funds) is called
StartRun ==
    /\ fetch_pos = NoResult /\ fetch_runs < MaxRuns
    /\ fetch_runs' = fetch_runs + 1
    /\ fetch_pos' = Some([fund |-> 1, filing |-> 0])
    /\ fetch_event' = NoResult
    /\ UNCHANGED <<filing_index, stored_filings, fetched, raised>>
    /\ UNCHANGED <<core_vars, store_vars, resolve_vars, base_vars>>

\* filings = client.find_13f_filings(fund.cik, ...): returns the list, or
\* raises and the except clause moves on to the next fund
FindFilings ==
    /\ fetch_pos # NoResult /\ fetch_pos[1].filing = 0
    /\ \E ok \in BOOLEAN :
          fetch_pos' = IF ok THEN NextFiling(fetch_pos[1].fund, 0)
                       ELSE NextFund(fetch_pos[1].fund)
    /\ fetch_event' = NoResult
    /\ UNCHANGED <<filing_index, stored_filings, fetched, raised, fetch_runs>>
    /\ UNCHANGED <<core_vars, store_vars, resolve_vars, base_vars>>

\* one iteration of `for filing in filings` on a processed filing: continue
SkipProcessed ==
    /\ fetch_pos # NoResult /\ fetch_pos[1].filing > 0
    /\ is_filing_processed(filing_index, FilingAt(fetch_pos[1]))
    /\ fetch_event' = Some([filing |-> FilingAt(fetch_pos[1]), did |-> "skipped"])
    /\ fetch_pos' = NextFiling(fetch_pos[1].fund, fetch_pos[1].filing)
    /\ UNCHANGED <<filing_index, stored_filings, fetched, raised, fetch_runs>>
    /\ UNCHANGED <<core_vars, store_vars, resolve_vars, base_vars>>

\* one iteration on any other filing: fetch_info_table_xml,
\* parse_info_table_xml, store_holdings and store_filing_index in this
\* order; when one raises the rest is not run and the except clause moves
\* on to the next fund
ProcessFiling ==
    /\ fetch_pos # NoResult /\ fetch_pos[1].filing > 0
    /\ ~is_filing_processed(filing_index, FilingAt(fetch_pos[1]))
    /\ \E raised_at \in {BodySteps[i] : i \in DOMAIN BodySteps} \cup {Completed} :
          LET filing == FilingAt(fetch_pos[1])
          IN  /\ fetched' = Counted(fetched, filing)
              /\ stored_filings' = IF Past("store", raised_at)
                                    THEN stored_filings \cup {filing} ELSE stored_filings
              /\ filing_index' = IF Past("index", raised_at)
                                  THEN store_filing_index(filing_index, filing)
                                  ELSE filing_index
              /\ raised' = IF raised_at \in {"fetch", "parse", "store"}
                            THEN raised \cup {filing} ELSE raised
              /\ fetch_event' = Some([filing |-> filing,
                                       did |-> IF raised_at = Completed
                                               THEN "processed" ELSE raised_at])
              /\ fetch_pos' = IF raised_at = Completed
                               THEN NextFiling(fetch_pos[1].fund, fetch_pos[1].filing)
                               ELSE NextFund(fetch_pos[1].fund)
    /\ UNCHANGED fetch_runs
    /\ UNCHANGED <<core_vars, store_vars, resolve_vars, base_vars>>

NextFetch == StartRun \/ FindFilings \/ SkipProcessed \/ ProcessFiling

SpecFetch == InitFetch /\ [][NextFetch]_vars

(***************************************************************************)
(* data/store.py: the history reader; the statistics module                *)
(***************************************************************************)
RECURSIVE Gcd(_, _)
Gcd(a, b) == IF b = 0 THEN a ELSE Gcd(b, a % b)
\* the same number in lowest terms, with a positive denominator
Reduce(x) ==
    LET g == Gcd(Abs(x[1]), Abs(x[2]))
        sign == IF x[2] < 0 THEN 0 - 1 ELSE 1
    IN  IF g = 0 THEN x ELSE Frac(sign * (x[1] \div g), sign * (x[2] \div g))
FracAdd(x, y) == Reduce(Frac(x[1] * y[2] + y[1] * x[2], x[2] * y[2]))
FracSquare(x) == Reduce(Frac(x[1] * x[1], x[2] * x[2]))

RECURSIVE FracSum(_)
FracSum(vals) ==
    IF vals = <<>> THEN Frac(0, 1) ELSE FracAdd(Head(vals), FracSum(Tail(vals)))

\* statistics.mean(vals): the sum over the count; of an empty list the
\* division is by 0 (StatisticsError)
Mean(vals) ==
    LET total == FracSum(vals)
    IN  IF vals = <<>> THEN Frac(total[1], 0)
        ELSE Reduce(Frac(total[1], total[2] * Len(vals)))

\* the sample variance: the squared deviations from the mean over n - 1
Variance(vals) ==
    LET m == Mean(vals)
        squares == FracSum([i \in DOMAIN vals |-> FracSquare(FracSub(vals[i], m))])
    IN  Reduce(Frac(squares[1], squares[2] * (Len(vals) - 1)))

\* the integer part of the square root of n, found between lo and hi
RECURSIVE ISqrtIn(_, _, _)
ISqrtIn(n, lo, hi) ==
    IF lo >= hi THEN lo
    ELSE LET mid == (lo + hi + 1) \div 2
         IN  IF mid * mid <= n THEN ISqrtIn(n, mid, hi) ELSE ISqrtIn(n, lo, mid - 1)

\* the decimals of a square root that are kept: a float carries more, and
\* a root of at most this many decimals is exact
RootScale == 100
RootLimit == 40000
Sqrt(x) ==
    Reduce(Frac(ISqrtIn((x[1] * RootScale * RootScale) \div x[2], 0, RootLimit), RootScale))

\* statistics.stdev(vals), for two values or more
Stdev(vals) == Sqrt(Variance(vals))

\* the set as a list, largest first (ORDER BY quarter_end DESC)
RECURSIVE Descending(_)
Descending(S) ==
    IF S = {} THEN <<>>
    ELSE LET top == CHOOSE x \in S : \A y \in S : y <= x
         IN  <<top>> \o Descending(S \ {top})

\* get_available_quarters(cik): SELECT DISTINCT quarter_end ... DESC
get_available_quarters(table, cik) ==
    Descending({table[i].quarter_end : i \in {k \in DOMAIN table : table[k].cik = cik}})

\* SELECT cusip, value_thousands ... WHERE cik = ? AND quarter_end = ? AND
\* put_call IS NULL
EquityRows(table, cik, quarter_end) ==
    SelectSeq(table, LAMBDA r : r.cik = cik /\ r.quarter_end = quarter_end /\ r.put_call = NULL)

\* sum((value / total) ** 2 for r in rows), 0.0 when the total is not positive
RowsHhi(rows) ==
    LET total == SumValues(rows)
    IN  IF total > 0 THEN Reduce(Frac(SumSquares(rows), total * total)) ELSE Frac(0, 1)

RECURSIVE MaxNewWeight(_, _, _, _)
\* the loop over cur_rows that keeps the largest weight, in percent, of a
\* new CUSIP
MaxNewWeight(rows, new_cusips, total, max_new_weight) ==
    IF rows = <<>> THEN max_new_weight
    ELSE LET w == Reduce(Frac(Head(rows).value_thousands * 100, total))
         IN  MaxNewWeight(Tail(rows), new_cusips, total,
                          IF Head(rows).cusip \in new_cusips /\ FracGT(w, max_new_weight)
                          THEN w ELSE max_new_weight)

\* one pass of the loop over consecutive quarters: the dict appended
PairActivity(table, cik, current_q, prior_q) ==
    LET cur_rows == EquityRows(table, cik, current_q)
        pri_rows == EquityRows(table, cik, prior_q)
        cur_cusips == {cur_rows[i].cusip : i \in DOMAIN cur_rows}
        pri_cusips == {pri_rows[i].cusip : i \in DOMAIN pri_rows}
        new_cusips == cur_cusips \ pri_cusips
        exited_cusips == pri_cusips \ cur_cusips
        cur_total == SumValues(cur_rows)
    IN  [quarter_end |-> current_q, prior_quarter |-> prior_q,
         new_positions |-> Cardinality(new_cusips),
         exited_positions |-> Cardinality(exited_cusips),
         hhi_change |-> Reduce(FracSub(RowsHhi(cur_rows), RowsHhi(pri_rows))),
         max_new_weight_pct |->
            IF new_cusips # {} /\ cur_total > 0
            THEN MaxNewWeight(cur_rows, new_cusips, cur_total, Frac(0, 1))
            ELSE Frac(0, 1)]

\* get_cross_quarter_activity(cik, exclude_quarter)
get_cross_quarter_activity(table, cik, exclude_quarter) ==
    LET quarters == SelectSeq(get_available_quarters(table, cik),
                              LAMBDA q : q # exclude_quarter)
    IN  IF Len(quarters) < 2 THEN <<>>
        ELSE [i \in 1..(Len(quarters) - 1) |->
                PairActivity(table, cik, quarters[i], quarters[i + 1])]

(***************************************************************************)
(* core/aggregator.py: compute_fund_baselines                              *)
(***************************************************************************)
\* a fund is kept with more records than min_quarters only
EnoughHistory_Strict(history, min_quarters) == Len(history) > min_quarters

\* not (len(history) < min_quarters)
EnoughHistory(history, min_quarters) == ~(Len(history) < min_quarters)

\* statistics.stdev(vals) if len(vals) >= 2 else 0.0
StdevOrZero(vals) == IF Len(vals) >= 2 THEN Stdev(vals) ELSE Frac(0, 1)

\* FundBaseline(...) built from the history of one fund
BaselineOf(history) ==
    LET activity_vals == [i \in DOMAIN history |->
            Frac(history[i].new_positions + history[i].exited_positions, 1)]
        hhi_vals == [i \in DOMAIN history |-> FracAbs(history[i].hhi_change)]
        new_wt_vals == [i \in DOMAIN history |-> history[i].max_new_weight_pct]
    IN  FundBaseline(Mean(activity_vals), StdevOrZero(activity_vals),
                     Mean(hhi_vals), StdevOrZero(hhi_vals),
                     Mean(new_wt_vals), StdevOrZero(new_wt_vals))

RECURSIVE BaselinesFrom(_, _, _, _, _)
\* the loop `for cik in fund_ciks` from the dict built so far
BaselinesFrom(baselines, table, fund_ciks, current_quarter, min_quarters) ==
    IF fund_ciks = <<>> THEN baselines
    ELSE LET cik == Head(fund_ciks)
             history == get_cross_quarter_activity(table, cik, current_quarter)
         IN  BaselinesFrom(IF EnoughHistory(history, min_quarters)
                           THEN Put(baselines, cik, BaselineOf(history))
                           ELSE baselines,
                           table, Tail(fund_ciks), current_quarter, min_quarters)

compute_fund_baselines(table, fund_ciks, current_quarter, min_quarters) ==
    BaselinesFrom([c \in {} |-> NoResult], table, fund_ciks, current_quarter, min_quarters)

(***************************************************************************)
(* SpecBase: quarters of filings are stored, then compute_fund_baselines   *)
(* is called                                                               *)
(***************************************************************************)
MaxQuarters == 4

BaseCiks == <<"Fund A", "Fund B">>
\* the quarters a fund files for: the second fund stops two quarters early
QuartersFiled(cik) == IF cik = BaseCiks[1] THEN MaxQuarters ELSE MaxQuarters - 2
\* what a fund may hold in a quarter; the second fund never changes
BasePortfolios(cik) ==
    IF cik = BaseCiks[1]
    THEN {<<Holding(CUSIP_X, NONE, 1, 10, "SH", NONE, NONE)>>,
          <<Holding(CUSIP_Y, NONE, 1, 10, "SH", NONE, NONE)>>,
          <<Holding(CUSIP_X, NONE, 1, 10, "SH", NONE, NONE),
            Holding(CUSIP_Y, NONE, 1, 10, "SH", NONE, NONE),
            Holding(CUSIP_W, "PUT", 1, 10, "SH", NONE, NONE)>>}
    ELSE {<<Holding(CUSIP_X, NONE, 1, 10, "SH", NONE, NONE)>>}

FundCiksChoices == {<<BaseCiks[1]>>, <<BaseCiks[1], BaseCiks[2]>>, <<BaseCiks[2], BaseCiks[2]>>}
\* min_quarters: the default and smaller ones
DefaultMinQuarters == 3
MinQuartersChoices == 1..DefaultMinQuarters
\* current_quarter: the latest quarter, or the one after it
CurrentQuarterChoices == {MaxQuarters, MaxQuarters + 1}

InitBase ==
    /\ IdleCore /\ IdleStore /\ IdleResolve /\ IdleFetch
    /\ base_args = NoResult /\ fund_baselines = NoResult

RECURSIVE StoreAll(_, _)
StoreAll(table, filed) ==
    IF filed = <<>> THEN table
    ELSE StoreAll(store_holdings(table, Head(filed)), Tail(filed))

\* the filings of the next quarter are stored, fund by fund
StoreQuarter ==
    /\ fund_baselines = NoResult
    /\ LET q == Len(get_available_quarters(db_holdings, BaseCiks[1])) + 1
           filing == SelectSeq(BaseCiks, LAMBDA cik : q <= QuartersFiled(cik))
       IN  /\ q <= MaxQuarters
           /\ \E hs \in [DOMAIN filing -> UNION {BasePortfolios(filing[i]) : i \in DOMAIN filing}] :
                 LET filed == [i \in DOMAIN filing |-> FiledHoldings(filing[i], q, hs[i])]
                 IN  /\ \A i \in DOMAIN filing : hs[i] \in BasePortfolios(filing[i])
                     /\ db_holdings' = StoreAll(db_holdings, filed)
                     /\ store_args' = Some(filed[Len(filed)])
                     /\ store_calls' = store_calls + Len(filed)
    /\ UNCHANGED <<core_vars, resolve_vars, fetch_vars, base_vars>>

ComputeFundBaselines ==
    /\ fund_baselines = NoResult
    /\ \E fund_ciks \in FundCiksChoices, current_quarter \in CurrentQuarterChoices,
          min_quarters \in MinQuartersChoices :
          /\ base_args' = Some([fund_ciks |-> fund_ciks, current_quarter |-> current_quarter,
                                 min_quarters |-> min_quarters])
          /\ fund_baselines' = Some(compute_fund_baselines(db_holdings, fund_ciks,
                                                           current_quarter, min_quarters))
    /\ UNCHANGED <<core_vars, store_vars, resolve_vars, fetch_vars>>

NextBase == StoreQuarter \/ ComputeFundBaselines

SpecBase == InitBase /\ [][NextBase]_vars

(***************************************************************************)
(* Properties of compute_fund_diff (checked under SpecDiff)                *)
(***************************************************************************)
Partitions == {"new_positions", "exited_positions", "added_positions",
               "trimmed_positions", "unchanged_positions"}

PartitionOf(change_type) ==
    CASE change_type = "NEW" -> "new_positions"
      [] change_type = "EXITED" -> "exited_positions"
      [] change_type = "ADDED" -> "added_positions"
      [] change_type = "TRIMMED" -> "trimmed_positions"
      [] change_type = "UNCHANGED" -> "unchanged_positions"

PosKey(d) == <<d.cusip, d.put_call>>

\* every position key that could be written at all
KeyUniverse == {CUSIP_X, CUSIP_Y} \X {NONE, "PUT", "CALL"}

\* how many entries of partition p of FundDiff fd carry key k
CountIn(fd, p, k) == Cardinality({i \in DOMAIN fd[p] : PosKey(fd[p][i]) = k})

RECURSIVE SumOver(_, _, _)
SumOver(S, fd, k) ==
    IF S = {} THEN 0
    ELSE LET p == CHOOSE x \in S : TRUE
         IN  CountIn(fd, p, k) + SumOver(S \ {p}, fd, k)

Occurrences(fd, k) == SumOver(Partitions, fd, k)

\* shares of key k in a holdings list, an absent holding counted as 0
SharesIn(holdings, k) ==
    IF MapGet(holdings, k) = None THEN 0 ELSE MapGet(holdings, k)[1].shares_or_prn_amt

\* the options filter's verdict on an option key that the current quarter holds
FilterVerdict(cur, pri, k) ==
    classify_option(MapGet(cur.holdings, k)[1], cur.holdings, cur.total_value_thousands,
                    ClassifyChange(SharesIn(pri.holdings, k), SharesIn(cur.holdings, k)),
                    MapGet(pri.holdings, k), DefaultAumThreshold)

DroppedKey(cur, pri, k) ==
    /\ k[2] # NONE
    /\ k \in KeysOf(cur.holdings)
    /\ FilterVerdict(cur, pri, k) = "EXCLUDE"

\* C1: every position key of the union of the current and the prior holdings
\* is in exactly one of the five partitions, except an option key held in
\* the current quarter that the options filter EXCLUDEs, which is in none;
\* no key outside the union is in any partition; an option key held only in
\* the prior quarter is never dropped.
C1_PartitionCompleteness ==
    diff # NoResult =>
        \A k \in KeyUniverse :
            /\ Occurrences(diff[1], k) =
                    IF k \in AllKeys(current[1], prior[1]) /\ ~DroppedKey(current[1], prior[1], k)
                    THEN 1 ELSE 0
            /\ (/\ k[2] # NONE
                /\ k \in KeysOf(prior[1].holdings)
                /\ k \notin KeysOf(current[1].holdings)) => Occurrences(diff[1], k) = 1

\* A diff that dropped an EXCLUDEd option, kept an option held only in the
\* prior quarter, and kept an equity position.
C1_Witness ==
    /\ diff # NoResult
    /\ \E k \in AllKeys(current[1], prior[1]) :
          DroppedKey(current[1], prior[1], k) /\ Occurrences(diff[1], k) = 0
    /\ \E k \in KeysOf(prior[1].holdings) \ KeysOf(current[1].holdings) :
          k[2] # NONE /\ Occurrences(diff[1], k) = 1
    /\ \E k \in AllKeys(current[1], prior[1]) : k[2] = NONE /\ Occurrences(diff[1], k) = 1

\* C2: the change type of every PositionDiff follows from (prior shares,
\* current shares) alone, an absent holding counting as 0 shares: NEW when
\* prior = 0 < current, EXITED when current = 0 < prior, ADDED when current >
\* prior, TRIMMED when current < prior, UNCHANGED when equal; and the
\* PositionDiff sits in the partition its change type names.
C2_Classification ==
    diff # NoResult =>
        \A p \in Partitions : \A i \in DOMAIN diff[1][p] :
            LET d == diff[1][p][i]
                ps == SharesIn(prior[1].holdings, PosKey(d))
                cs == SharesIn(current[1].holdings, PosKey(d))
            IN  /\ d.prior_shares = ps /\ d.current_shares = cs
                /\ p = PartitionOf(d.change_type)
                /\ (ps = 0 /\ cs > 0) => d.change_type = "NEW"
                /\ (ps > 0 /\ cs = 0) => d.change_type = "EXITED"
                /\ (ps > 0 /\ cs > ps) => d.change_type = "ADDED"
                /\ (cs > 0 /\ cs < ps) => d.change_type = "TRIMMED"
                /\ (cs = ps) => d.change_type = "UNCHANGED"

\* A diff with a NEW position whose key the prior quarter lacks, an ADDED, a
\* TRIMMED or EXITED, and an UNCHANGED one among its partitions.
C2_Witness ==
    /\ diff # NoResult
    /\ \E i \in DOMAIN diff[1].new_positions :
          PosKey(diff[1].new_positions[i]) \notin KeysOf(prior[1].holdings)
    /\ \/ diff[1].added_positions # <<>> /\ diff[1].trimmed_positions # <<>>
       \/ diff[1].exited_positions # <<>> /\ diff[1].unchanged_positions # <<>>

\* C15: every FundHoldings has total_value_thousands equal to the sum of
\* value_thousands over its holdings, with or without an explicit total.
C15_TotalIsSum ==
    /\ current # NoResult =>
          current[1].total_value_thousands = SumValues(current[1].holdings)
    /\ prior # NoResult =>
          prior[1].total_value_thousands = SumValues(prior[1].holdings)

\* a float that is 0.0, and one that some division produced
IsZero(f) == f[1] = 0 /\ f[2] # 0
IsDefined(f) == f[2] # 0

\* every PositionDiff of a FundDiff, whatever its partition
AllPositions(fd) == UNION {{fd[p][i] : i \in DOMAIN fd[p]} : p \in Partitions}

\* C12: compute_fund_diff returns a FundDiff on zero-AUM and empty inputs,
\* no division by zero among its numbers: when the current total is 0 every
\* current weight, the current HHI and the current top-10 weight are 0.0;
\* when the prior total is 0 the same holds of the prior quarter and the
\* AUM change percentage is 0.0.
C12_ZeroAum ==
    diff # NoResult =>
        LET fd == diff[1] IN
        /\ \A d \in AllPositions(fd) :
              /\ IsDefined(d.current_weight_pct) /\ IsDefined(d.prior_weight_pct)
              /\ IsDefined(d.shares_change_pct)
        /\ IsDefined(fd.current_hhi) /\ IsDefined(fd.prior_hhi) /\ IsDefined(fd.hhi_change)
        /\ IsDefined(fd.current_top10_weight) /\ IsDefined(fd.prior_top10_weight)
        /\ IsDefined(fd.aum_change_pct)
        /\ current[1].total_value_thousands = 0 =>
              /\ \A d \in AllPositions(fd) : IsZero(d.current_weight_pct)
              /\ IsZero(fd.current_hhi) /\ IsZero(fd.current_top10_weight)
        /\ prior[1].total_value_thousands = 0 =>
              /\ \A d \in AllPositions(fd) : IsZero(d.prior_weight_pct)
              /\ IsZero(fd.prior_hhi) /\ IsZero(fd.prior_top10_weight)
              /\ IsZero(fd.aum_change_pct)

\* A diff of a fund with nothing in the prior quarter and new positions in
\* the current one.
C12_Witness ==
    /\ diff # NoResult
    /\ prior[1].total_value_thousands = 0
    /\ current[1].total_value_thousands > 0
    /\ diff[1].new_positions # <<>>

\* C13: shares_change = current - prior shares, and shares_change_pct is
\* (current - prior) / prior when prior > 0, exactly 1.0 when prior = 0 <
\* current, and 0.0 when both are 0, with no division by zero.
C13_SharesChange ==
    diff # NoResult =>
        \A d \in AllPositions(diff[1]) :
            LET ps == SharesIn(prior[1].holdings, PosKey(d))
                cs == SharesIn(current[1].holdings, PosKey(d))
                pct == d.shares_change_pct
            IN  /\ d.shares_change = cs - ps
                /\ pct[2] # 0
                /\ ps > 0 => pct[1] * ps = (cs - ps) * pct[2]
                /\ (ps = 0 /\ cs > 0) => pct[1] = pct[2]
                /\ (ps = 0 /\ cs = 0) => pct[1] = 0

\* A diff with a new position, a position of 0 shares in both quarters and
\* a trimmed one.
C13_Witness ==
    /\ diff # NoResult
    /\ diff[1].new_positions # <<>>
    /\ diff[1].trimmed_positions # <<>>
    /\ \E i \in DOMAIN diff[1].unchanged_positions :
          /\ diff[1].unchanged_positions[i].current_shares = 0
          /\ diff[1].unchanged_positions[i].prior_shares = 0

(***************************************************************************)
(* Properties of the HHI (checked under SpecConc)                          *)
(***************************************************************************)
\* C14: for every non-empty holdings list with positive total value the
\* HHI, by the diff engine and by compute_portfolio_concentration, is
\* above 0 and at most 1, and is 1 only when the list has one position.
C14_HhiRange ==
    conc # NoResult =>
        LET hs == conc_args[1].holdings IN
        (hs # <<>> /\ SumValues(hs) > 0 /\ conc_args[1].total_value_k = SumValues(hs)) =>
            \A hhi \in {conc[1].diff_engine_hhi, conc[1].concentration.hhi} :
                /\ hhi[2] > 0
                /\ hhi[1] > 0
                /\ hhi[1] <= hhi[2]
                /\ hhi[1] = hhi[2] => Len(hs) = 1

\* The HHI of a list of three or more positions, below 1 and the same by
\* both functions.
C14_Witness ==
    /\ conc # NoResult
    /\ Len(conc_args[1].holdings) >= 3
    /\ conc[1].diff_engine_hhi[1] > 0
    /\ conc[1].diff_engine_hhi[1] < conc[1].diff_engine_hhi[2]
    /\ conc[1].concentration.hhi = conc[1].diff_engine_hhi

(***************************************************************************)
(* Properties of classify_option (checked under SpecOpt)                   *)
(***************************************************************************)
RECURSIVE SumOf(_, _)
SumOf(f, S) ==
    IF S = {} THEN 0
    ELSE LET x == CHOOSE y \in S : TRUE IN f[x] + SumOf(f, S \ {x})

\* The nine rules, each stated on the arguments of the call.
SameIssuerEquityRows(c) ==
    {i \in DOMAIN c.all_holdings :
        /\ c.all_holdings[i].cusip[1] = c.holding.cusip[1]
        /\ c.all_holdings[i].put_call = NONE
        /\ c.all_holdings[i].sh_prn_type = "SH"}
SameIssuerEquityValue(c) ==
    SumOf([i \in DOMAIN c.all_holdings |-> c.all_holdings[i].value_thousands],
          SameIssuerEquityRows(c))
AtThreshold(c) ==
    /\ c.total_aum_thousands > 0
    /\ 1000 * c.holding.value_thousands >= 5 * c.total_aum_thousands
ManySmallOptions(c) ==
    Cardinality({i \in DOMAIN c.all_holdings :
        /\ c.all_holdings[i].put_call # NONE
        /\ c.total_aum_thousands > 0
        /\ 1000 * c.all_holdings[i].value_thousands < 2 * c.total_aum_thousands}) >= 20
\* rows ahead of row i when the list is ordered by value, largest first
RowsAhead(c, i) ==
    {j \in DOMAIN c.all_holdings :
        \/ c.all_holdings[j].value_thousands > c.all_holdings[i].value_thousands
        \/ /\ c.all_holdings[j].value_thousands = c.all_holdings[i].value_thousands
           /\ j < i}

Rule1(c) == c.change_type = "NEW" /\ c.holding.put_call = "PUT" /\ SameIssuerEquityRows(c) = {}
Rule2(c) == c.change_type = "NEW" /\ c.holding.put_call = "CALL" /\ AtThreshold(c)
Rule3(c) == SameIssuerEquityValue(c) > 10 * c.holding.value_thousands
Rule4(c) == AtThreshold(c)
Rule5(c) == ManySmallOptions(c)
Rule6(c) ==
    /\ Len(c.all_holdings) >= 10
    /\ \E i \in DOMAIN c.all_holdings :
          /\ KeyOf(c.all_holdings[i]) = KeyOf(c.holding)
          /\ Cardinality(RowsAhead(c, i)) < 10
Rule7(c) ==
    /\ c.prior_holding # None
    /\ c.prior_holding[1].value_thousands > 0
    /\ 2 * Abs(c.holding.value_thousands - c.prior_holding[1].value_thousands)
          >= c.prior_holding[1].value_thousands
Rule8(c) == c.change_type = "NEW" /\ c.holding.value_thousands >= 10000

FirstMatch(c) ==
    CASE c.holding.put_call = NONE -> "INCLUDE"
      [] OTHER ->
         IF Rule1(c) THEN "INCLUDE"
         ELSE IF Rule2(c) THEN "INCLUDE"
         ELSE IF Rule3(c) THEN "EXCLUDE"
         ELSE IF Rule4(c) THEN "INCLUDE"
         ELSE IF Rule5(c) THEN "EXCLUDE"
         ELSE IF Rule6(c) THEN "INCLUDE"
         ELSE IF Rule7(c) THEN "INCLUDE"
         ELSE IF Rule8(c) THEN "INCLUDE"
         ELSE "FLAG"

\* C3: classify_option returns the outcome of the first rule that matches,
\* in the order 1..9, and INCLUDE for a holding that is no option; a NEW PUT
\* without same-issuer equity is INCLUDE even among 20 or more small
\* options, and a hedge that rules 1-2 do not match is EXCLUDE even at or
\* above the weight threshold.
C3_RuleOrder ==
    opt_result # NoResult =>
        LET c == opt_call[1] IN
        /\ opt_result[1] = FirstMatch(c)
        /\ (c.holding.put_call # NONE /\ Rule1(c) /\ Rule5(c)) => opt_result[1] = "INCLUDE"
        /\ (c.holding.put_call # NONE /\ ~Rule1(c) /\ ~Rule2(c) /\ Rule3(c) /\ Rule4(c))
              => opt_result[1] = "EXCLUDE"

\* A NEW PUT without same-issuer equity, classified among 20 or more small
\* options.
C3_Witness ==
    /\ opt_result # NoResult
    /\ Rule1(opt_call[1]) /\ Rule5(opt_call[1])
    /\ opt_result[1] = "INCLUDE"

(***************************************************************************)
(* Properties of PositionDiff (checked under SpecPD)                       *)
(***************************************************************************)
\* the value a field takes: the keyword argument, or the default 0.0
FieldValue(arg) == IF arg = NotGiven THEN Frac(0, 1) ELSE arg[1]

C5_SignificantWithoutWeight ==
    pd_read # NoResult =>
        /\ (/\ pd_args[1].change_type = "ADDED"
            /\ pd_args[1].shares_change_pct = Some(Frac(1, 1))
            /\ pd_args[1].current_weight_pct = NotGiven)
              => pd_read[1].is_significant_add
        /\ (/\ pd_args[1].change_type = "TRIMMED"
            /\ pd_args[1].shares_change_pct = Some(Frac(-7, 10))
            /\ pd_args[1].prior_weight_pct = NotGiven)
              => pd_read[1].is_significant_trim

(***************************************************************************)
(* Properties of aggregate_signals (checked under SpecAgg)                 *)
(***************************************************************************)
AggCusips == {CUSIP_X, CUSIP_Y}
Range(seq) == {seq[i] : i \in DOMAIN seq}

\* rows of one partition of one fund's diff that carry the CUSIP
RowsWith(d, part, cusip) == {i \in DOMAIN d[part] : d[part][i].cusip = cusip}
\* ... and that are the position with the key
RowsWithKey(d, part, key) == {i \in DOMAIN d[part] : PosKey(d[part][i]) = key}

\* the funds (by place in fund_diffs) with a position of the partition
FundsWith(part, cusip) ==
    {f \in DOMAIN fund_diffs : RowsWith(fund_diffs[f], part, cusip) # {}}
FundsBuying(cusip) == FundsWith("new_positions", cusip) \cup FundsWith("added_positions", cusip)

\* the number of positions of the partition recorded for the CUSIP
Recorded(part, cusip) ==
    SumOf([f \in DOMAIN fund_diffs |-> Cardinality(RowsWith(fund_diffs[f], part, cusip))],
          DOMAIN fund_diffs)
RecordedForKey(part, key) ==
    SumOf([f \in DOMAIN fund_diffs |-> Cardinality(RowsWithKey(fund_diffs[f], part, key))],
          DOMAIN fund_diffs)

TradesFor(list, cusip) == {i \in DOMAIN list : list[i].cusip = cusip}

\* every CrowdedTrade of the CrossFundSignals, whichever list holds it
AllCrowdedTrades ==
    Range(signals[1].crowded_trades) \cup Range(signals[1].consensus_initiations)
        \cup Range(signals[1].crowding_risks)

\* C11: every CrowdedTrade in any list of the signals has net_fund_sentiment
\* = (|funds_initiated| + |funds_added|) - (|funds_trimmed| + |funds_exited|)
\* = total_funds_buying - total_funds_selling; with 1 initiator, 2 adders,
\* 1 trimmer and 1 exiter these are 3, 2 and +1.
C11_NetSentiment ==
    signals # NoResult =>
        \A t \in AllCrowdedTrades :
            /\ t.net_fund_sentiment =
                  (Len(t.funds_initiated) + Len(t.funds_added))
                    - (Len(t.funds_trimmed) + Len(t.funds_exited))
            /\ t.net_fund_sentiment = total_funds_buying(t) - total_funds_selling(t)
            /\ (/\ Len(t.funds_initiated) = 1 /\ Len(t.funds_added) = 2
                /\ Len(t.funds_trimmed) = 1 /\ Len(t.funds_exited) = 1)
               => /\ total_funds_buying(t) = 3
                  /\ total_funds_selling(t) = 2
                  /\ t.net_fund_sentiment = 1

\* A crowded trade with one initiator, two adders, one trimmer and one exiter.
C11_Witness ==
    /\ signals # NoResult
    /\ \E i \in DOMAIN signals[1].crowded_trades :
          LET t == signals[1].crowded_trades[i]
          IN  /\ Len(t.funds_initiated) = 1 /\ Len(t.funds_added) = 2
              /\ Len(t.funds_trimmed) = 1 /\ Len(t.funds_exited) = 1
              /\ t.net_fund_sentiment = 1

\* C6: an instrument is in crowded_trades exactly when its buying count
\* |initiated| + |added| is at least min_funds_for_crowd, and at most once;
\* with threshold 3, two funds buying yield no crowded trade and a third
\* buyer yields exactly one, with total_funds_buying = 3.
C6_CrowdedIffBuyingCount ==
    signals # NoResult =>
        LET crowded == signals[1].crowded_trades
            min == agg_args[1].min_funds_for_crowd
        IN  \A c \in AggCusips :
              /\ Cardinality(TradesFor(crowded, c)) =
                    IF Recorded("new_positions", c) + Recorded("added_positions", c) >= min
                    THEN 1 ELSE 0
              /\ (min = 3 /\ Cardinality(FundsBuying(c)) = 2) => TradesFor(crowded, c) = {}
              /\ (min = 3 /\ Cardinality(FundsBuying(c)) = 3) =>
                    /\ Cardinality(TradesFor(crowded, c)) = 1
                    /\ \A i \in TradesFor(crowded, c) : total_funds_buying(crowded[i]) = 3

\* C7: an instrument is in consensus_initiations exactly when the number of
\* funds that initiated it is at least min_funds_for_consensus, whether or
\* not it is also a crowded trade.
C7_ConsensusIffInitiators ==
    signals # NoResult =>
        \A c \in AggCusips :
            Cardinality(TradesFor(signals[1].consensus_initiations, c)) =
                IF Cardinality(FundsWith("new_positions", c))
                     >= agg_args[1].min_funds_for_consensus
                THEN 1 ELSE 0

C9_DivergenceListsDisjoint ==
    signals # NoResult =>
        \A i \in DOMAIN signals[1].divergences :
            LET dv == signals[1].divergences[i] IN
            /\ dv.initiated_by # <<>>
            /\ dv.exited_by # <<>>
            /\ Range(dv.initiated_by) \cap Range(dv.exited_by) = {}

\* C10: the aggregator is keyed by position key: the buckets, the aggregate
\* value and the aggregate shares of a CrowdedTrade are those of one
\* position key, never of an equity and an option position together.
C10_KeyedByPositionKey ==
    signals # NoResult =>
        \A list \in {signals[1].crowded_trades, signals[1].consensus_initiations} :
          \A i \in DOMAIN list :
            \E put_call \in {NONE, "PUT", "CALL"} :
              LET t == list[i]
                  key == <<t.cusip, put_call>>
              IN  /\ Len(t.funds_initiated) = RecordedForKey("new_positions", key)
                  /\ Len(t.funds_added) = RecordedForKey("added_positions", key)
                  /\ Len(t.funds_trimmed) = RecordedForKey("trimmed_positions", key)
                  /\ Len(t.funds_exited) = RecordedForKey("exited_positions", key)
                  /\ t.aggregate_shares =
                        SumOf([f \in DOMAIN fund_diffs |->
                                 SumOf([part \in Partitions \ {"exited_positions"} |->
                                          SumOf([r \in DOMAIN fund_diffs[f][part] |->
                                                   fund_diffs[f][part][r].current_shares],
                                                RowsWithKey(fund_diffs[f], part, key))],
                                       Partitions \ {"exited_positions"})],
                              DOMAIN fund_diffs)


(***************************************************************************)
(* Properties of the sector flows, the aggregates and the crowding risks   *)
(* (SpecFlow)                                                              *)
(***************************************************************************)
\* the positions of the listed partitions, as (fund, partition, row)
Entries(parts) ==
    UNION {UNION {{<<f, p, i>> : i \in DOMAIN fund_diffs[f][p]} : p \in parts}
           : f \in DOMAIN fund_diffs}
EntryPos(e) == fund_diffs[e[1]][e[2]][e[3]]
SectorLabel(pos) == IF pos.sector = NONE THEN "Unknown" ELSE pos.sector

BuyParts == {"new_positions", "added_positions"}
SellParts == {"exited_positions", "trimmed_positions"}

EntriesIn(parts, sector) == {e \in Entries(parts) : SectorLabel(EntryPos(e)) = sector}
FundsIn(parts, sector) == {e[1] : e \in EntriesIn(parts, sector)}
SectorsActive == {SectorLabel(EntryPos(e)) : e \in Entries(BuyParts \cup SellParts)}

\* C16: in the count-weighted sector flows a sector's buying count is the
\* number of funds with at least one new or added position in it, its
\* selling count the number of funds with at least one exited or trimmed
\* position in it, net = buying - selling, and a position without a sector
\* counts under "Unknown".
C16_CountFlows ==
    signals # NoResult =>
        LET flows == signals[1].sector_flows
        IN  /\ DOMAIN flows = SectorsActive
            /\ \A sector \in SectorsActive :
                  /\ flows[sector].buying = Cardinality(FundsIn(BuyParts, sector))
                  /\ flows[sector].selling = Cardinality(FundsIn(SellParts, sector))
                  /\ flows[sector].net = flows[sector].buying - flows[sector].selling

\* One fund bought two Technology positions and is the sector's only buyer,
\* and a position without a sector was sold.
C16_Witness ==
    /\ signals # NoResult
    /\ \E f \in DOMAIN fund_diffs :
          /\ Cardinality({e \in EntriesIn(BuyParts, "Technology") : e[1] = f}) = 2
          /\ FundsIn(BuyParts, "Technology") = {f}
    /\ signals[1].sector_flows["Technology"].buying = 1
    /\ \E e \in Entries(SellParts) : EntryPos(e).sector = NONE
    /\ signals[1].sector_flows["Unknown"].selling >= 1

\* what a position adds to its sector's dollar flow
DollarsBought(pos) == pos.current_value_thousands
DollarsSold(pos) ==
    IF pos.change_type = "EXITED" THEN pos.prior_value_thousands
    ELSE Abs(pos.prior_value_thousands - pos.current_value_thousands)

\* C17: in the dollar-weighted sector flows every new or added position
\* adds its current value to its sector's buying total, every exited
\* position its prior value and every trimmed position the absolute
\* difference of prior and current value to the selling total, with no
\* deduplication per fund, and net_k = buying_k - selling_k.
C17_DollarFlows ==
    signals # NoResult =>
        LET flows == signals[1].sector_dollar_flows
        IN  /\ DOMAIN flows = SectorsActive
            /\ \A sector \in SectorsActive :
                  /\ flows[sector].buying_k =
                        SumOf([e \in EntriesIn(BuyParts, sector) |-> DollarsBought(EntryPos(e))],
                              EntriesIn(BuyParts, sector))
                  /\ flows[sector].selling_k =
                        SumOf([e \in EntriesIn(SellParts, sector) |-> DollarsSold(EntryPos(e))],
                              EntriesIn(SellParts, sector))
                  /\ flows[sector].net_k = flows[sector].buying_k - flows[sector].selling_k

\* One fund bought two Technology positions, both counted; a trimmed
\* position is worth more than before and another one less.
C17_Witness ==
    /\ signals # NoResult
    /\ \E f \in DOMAIN fund_diffs :
          Cardinality({e \in EntriesIn(BuyParts, "Technology") : e[1] = f}) = 2
    /\ \E e \in Entries({"trimmed_positions"}) :
          /\ EntryPos(e).current_value_thousands > EntryPos(e).prior_value_thousands
          /\ signals[1].sector_dollar_flows[SectorLabel(EntryPos(e))].selling_k > 0
    /\ \E e \in Entries({"trimmed_positions"}) :
          EntryPos(e).current_value_thousands < EntryPos(e).prior_value_thousands

\* the positions of one instrument (position key) over all funds
EntriesOfKey(parts, key) == {e \in Entries(parts) : PosKey(EntryPos(e)) = key}
ValueCounted(pos) ==
    IF pos.change_type = "EXITED" THEN pos.prior_value_thousands
    ELSE pos.current_value_thousands
AggregateValueOf(key) ==
    SumOf([e \in EntriesOfKey(Partitions, key) |-> ValueCounted(EntryPos(e))],
          EntriesOfKey(Partitions, key))
AggregateSharesOf(key) ==
    SumOf([e \in EntriesOfKey(Partitions \ {"exited_positions"}, key) |->
              EntryPos(e).current_shares],
          EntriesOfKey(Partitions \ {"exited_positions"}, key))

\* C19: the aggregate_value_thousands of an instrument is the sum, over all
\* funds, of the current value of its new, added, trimmed and unchanged
\* positions plus the prior value of its exited positions, and its
\* aggregate_shares is the sum of the current shares of its new, added,
\* trimmed and unchanged positions.
C19_Aggregates ==
    signals # NoResult =>
        \A t \in AllCrowdedTrades :
            \E put_call \in {NONE, "PUT", "CALL"} :
                /\ t.aggregate_value_thousands = AggregateValueOf(<<t.cusip, put_call>>)
                /\ t.aggregate_shares = AggregateSharesOf(<<t.cusip, put_call>>)

\* the float-share count known for the instrument's ticker, or None
KnownFloat(cusip) ==
    IF /\ TickerOf(cusip) # NONE
       /\ TickerOf(cusip) \in DOMAIN sector_map[1]
       /\ sector_map[1][TickerOf(cusip)].float_shares # None
       /\ sector_map[1][TickerOf(cusip)].float_shares[1] > 0
    THEN sector_map[1][TickerOf(cusip)].float_shares
    ELSE None

\* the shares all analyzed funds hold are at least 5% of the float
OwnsFivePercent(cusip) ==
    /\ KnownFloat(cusip) # None
    /\ 100 * AggregateSharesOf(<<cusip, NONE>>) >= 5 * KnownFloat(cusip)[1]

\* C18: an instrument is in crowding_risks exactly when it has a resolved
\* ticker with a known positive float and the shares held by all analyzed
\* funds, unchanged positions included, are at least 5% of the float,
\* whatever the min_funds thresholds; instruments without ticker or float
\* are left out; the list is sorted by float-ownership percentage descending.
C18_CrowdingRisks ==
    signals # NoResult =>
        LET risks == signals[1].crowding_risks
        IN  /\ \A cusip \in {CUSIP_X, CUSIP_W, CUSIP_Y} :
                  Cardinality(TradesFor(risks, cusip)) =
                      IF OwnsFivePercent(cusip) THEN 1 ELSE 0
            /\ \A i, j \in DOMAIN risks :
                  i < j => FracGE(risks[i].float_ownership_pct[1],
                                  risks[j].float_ownership_pct[1])

(***************************************************************************)
(* Properties of compute_top_findings (SpecTop)                            *)
(***************************************************************************)
\* C20: compute_top_findings returns its findings sorted by score in
\* descending order and never more than n of them; for an empty list of
\* FundDiffs it returns an empty list.
C20_TopFindings ==
    findings # NoResult =>
        LET result == findings[1]
        IN  /\ \A i, j \in DOMAIN result :
                  i < j => FracCmp(result[i].score, result[j].score) >= 0
            /\ Len(result) <= top_args[1].n
            /\ fund_diffs = <<>> => result = <<>>

\* A call that returned n = 2 findings of different scores, where the
\* highest score is not the one of the first candidate appended (a new
\* position outranking a consensus initiation).
C20_Witness ==
    /\ findings # NoResult
    /\ top_args[1].n = 2
    /\ Len(findings[1]) = 2
    /\ FracCmp(findings[1][1].score, findings[1][2].score) > 0
    /\ findings[1][1].category = "new_position"
    /\ findings[1][2].category = "crowded_buy"
    /\ Len(compute_top_findings(fund_diffs, signals, 5, top_args[1].baselines)) > 2

\* the findings of one category in the list returned
FindingsOf(category) ==
    {i \in DOMAIN findings[1] : findings[1][i].category = category}

\* the multiplier table, on a z-score given as a fraction
MultiplierFor(z) ==
    IF 2 * z[1] < z[2] THEN Frac(1, 2)
    ELSE IF z[1] < z[2] THEN Frac(4, 5)
    ELSE IF 2 * z[1] < 3 * z[2] THEN Frac(1, 1)
    ELSE IF z[1] < 2 * z[2] THEN Frac(13, 10)
    ELSE Frac(8, 5)

\* (observed - mean) / std as a fraction with a positive denominator, 0 for std = 0
ExpectedZ(observed, mean, std) ==
    IF std[1] = 0 THEN Frac(0, 1)
    ELSE Frac((observed[1] * mean[2] - mean[1] * observed[2]) * std[2],
              observed[2] * mean[2] * std[1])

\* the score expected of a per-fund finding of the fund
ExpectedScore(base, fund, observed, mean_field, std_field) ==
    LET baselines == top_args[1].baselines
    IN  IF baselines = None \/ fund \notin DOMAIN baselines[1] THEN base
        ELSE LET m == MultiplierFor(ExpectedZ(observed, baselines[1][fund][mean_field],
                                              baselines[1][fund][std_field]))
             IN  Frac(base[1] * m[1], base[2] * m[2])

\* the funds (places in fund_diffs) that rank first for each per-fund kind
MovesOf(f) ==
    Len(fund_diffs[f].new_positions) + Len(fund_diffs[f].exited_positions)
    + Cardinality({i \in DOMAIN fund_diffs[f].added_positions :
                      is_significant_add(fund_diffs[f].added_positions[i])})
    + Cardinality({i \in DOMAIN fund_diffs[f].trimmed_positions :
                      is_significant_trim(fund_diffs[f].trimmed_positions[i])})
FirstBest(better) ==
    CHOOSE f \in DOMAIN fund_diffs :
        /\ \A g \in DOMAIN fund_diffs : ~better[g, f]
        /\ \A g \in DOMAIN fund_diffs : g < f => better[f, g]
MostActive == FirstBest([f, g \in DOMAIN fund_diffs |-> MovesOf(f) > MovesOf(g)])
AbsHhi(f) == Frac(Abs(fund_diffs[f].hhi_change[1]), fund_diffs[f].hhi_change[2])
BiggestShift ==
    FirstBest([f, g \in DOMAIN fund_diffs |-> FracCmp(AbsHhi(f), AbsHhi(g)) > 0])
NewEntries == Entries({"new_positions"})
\* the largest new position: the first, in fund and list order, of maximal weight
LargestNew ==
    CHOOSE e \in NewEntries :
        \A o \in NewEntries :
            /\ FracGE(EntryPos(e).current_weight_pct, EntryPos(o).current_weight_pct)
            /\ (o[1] < e[1] \/ (o[1] = e[1] /\ o[3] < e[3]))
                 => FracGT(EntryPos(e).current_weight_pct, EntryPos(o).current_weight_pct)

ActivityBase(f) == Frac(40 + (IF MovesOf(f) < 20 THEN MovesOf(f) ELSE 20), 1)
NewPositionBase(e) ==
    Frac(55 * EntryPos(e).current_weight_pct[2] + 5 * EntryPos(e).current_weight_pct[1],
         EntryPos(e).current_weight_pct[2])
ConcentrationBase(f) ==
    IF FracCmp(AbsHhi(f), Frac(1, 250)) >= 0 THEN Frac(55, 1)
    ELSE Frac(35 * AbsHhi(f)[2] + 5000 * AbsHhi(f)[1], AbsHhi(f)[2])

CrossFundScores(list) ==
    LET cross == SelectSeq(list, LAMBDA x : x.category \in {"crowded_buy", "divergence"})
    IN  [i \in DOMAIN cross |-> cross[i].score]

\* C21: the score of a per-fund finding (most active fund, largest new
\* position, largest concentration shift) is its base score times the
\* multiplier of the fund's z-score when a baseline for the fund is
\* supplied (0.5 for z < 0.5, 0.8 for z < 1.0, 1.0 for z < 1.5, 1.3 for
\* z < 2.0, 1.6 otherwise) and exactly the base score when none is; the
\* scores of the cross-fund findings are the same with and without baselines.
C21_BaselineScores ==
    findings # NoResult =>
        /\ \A i \in FindingsOf("activity") :
              FracCmp(findings[1][i].score,
                      ExpectedScore(ActivityBase(MostActive), fund_diffs[MostActive].fund,
                                    Frac(MovesOf(MostActive), 1),
                                    "activity_mean", "activity_std")) = 0
        /\ \A i \in FindingsOf("new_position") :
              FracCmp(findings[1][i].score,
                      ExpectedScore(NewPositionBase(LargestNew), fund_diffs[LargestNew[1]].fund,
                                    EntryPos(LargestNew).current_weight_pct,
                                    "max_new_weight_mean", "max_new_weight_std")) = 0
        /\ \A i \in FindingsOf("concentration") :
              FracCmp(findings[1][i].score,
                      ExpectedScore(ConcentrationBase(BiggestShift),
                                    fund_diffs[BiggestShift].fund, AbsHhi(BiggestShift),
                                    "hhi_change_mean", "hhi_change_std")) = 0
        /\ CrossFundScores(compute_top_findings(fund_diffs, signals, 9, top_args[1].baselines))
              = CrossFundScores(compute_top_findings(fund_diffs, signals, 9, None))

\* With a baseline for the first fund only: its activity finding for 2
\* moves (z = 1.5) is scored 1.3 times the base 42, the second fund's new
\* position keeps its base score, and a cross-fund finding is returned.
C21_Witness ==
    /\ findings # NoResult
    /\ top_args[1].baselines # None
    /\ Len(fund_diffs) = 2
    /\ MostActive = 1 /\ MovesOf(1) = 2
    /\ \E i \in FindingsOf("activity") : findings[1][i].score = Frac(42 * 13, 10)
    /\ NewEntries # {} /\ LargestNew[1] = 2
    /\ \E i \in FindingsOf("new_position") :
          FracCmp(findings[1][i].score, NewPositionBase(LargestNew)) = 0
    /\ \E i \in FindingsOf("crowded_buy") : TRUE

\* the instruments (by label) the findings of one wording report
ReportedAs(wording) ==
    {findings[1][i].headline.subject :
        i \in {k \in DOMAIN findings[1] : findings[1][k].headline.wording = wording}}

\* C24: no instrument is reported both by a consensus-initiation finding
\* and by a crowded-trade finding.
C24_NoDuplicateInstrument ==
    findings # NoResult =>
        ReportedAs("funds initiated") \cap ReportedAs("funds buying") = {}

\* An instrument is both a consensus initiation and a crowded trade of the
\* signals, and the findings, none cut off, report it as consensus only.
C24_Witness ==
    /\ findings # NoResult /\ signals # NoResult
    /\ top_args[1].n = 5 /\ Len(findings[1]) < 5
    /\ \E i \in DOMAIN signals[1].crowded_trades :
          /\ TradesFor(signals[1].consensus_initiations,
                       signals[1].crowded_trades[i].cusip) # {}
          /\ display_label(signals[1].crowded_trades[i]) \in ReportedAs("funds initiated")
          /\ display_label(signals[1].crowded_trades[i]) \notin ReportedAs("funds buying")

\* nothing was cut off the list returned
NothingCut == Len(findings[1]) < top_args[1].n

\* C25: compute_top_findings produces at most one finding of each per-fund
\* kind, and only when its gate is met: a largest-new-position finding
\* exactly when the largest new-position weight over all funds is >= 1%, a
\* concentration finding exactly when the largest absolute HHI change is
\* > 0.005, a most-active-fund finding exactly when the highest move count
\* is > 0.
C25_Gates ==
    findings # NoResult =>
        /\ \A kind \in {"activity", "new_position", "concentration"} :
              Cardinality(FindingsOf(kind)) <= 1
        /\ FindingsOf("new_position") # {} =>
              \E e \in NewEntries : FracGE(EntryPos(e).current_weight_pct, Frac(1, 1))
        /\ FindingsOf("concentration") # {} =>
              \E f \in DOMAIN fund_diffs : FracCmp(AbsHhi(f), Frac(5, 1000)) > 0
        /\ FindingsOf("activity") # {} =>
              \E f \in DOMAIN fund_diffs : MovesOf(f) > 0
        /\ NothingCut =>
              /\ (\E e \in NewEntries : FracGE(EntryPos(e).current_weight_pct, Frac(1, 1)))
                    => FindingsOf("new_position") # {}
              /\ (\E f \in DOMAIN fund_diffs : FracCmp(AbsHhi(f), Frac(5, 1000)) > 0)
                    => FindingsOf("concentration") # {}
              /\ (\E f \in DOMAIN fund_diffs : MovesOf(f) > 0)
                    => FindingsOf("activity") # {}

\* The only new position weighs less than 1% of its fund: no new-position
\* finding, while the fund's activity and its concentration shift are
\* reported.
C25_Witness ==
    /\ findings # NoResult /\ NothingCut
    /\ NewEntries # {}
    /\ \A e \in NewEntries : FracLT(EntryPos(e).current_weight_pct, Frac(1, 1))
    /\ FindingsOf("new_position") = {}
    /\ FindingsOf("activity") # {}
    /\ FindingsOf("concentration") # {}

\* C26: in every FundDiff new_positions is sorted by current value
\* descending, exited_positions by prior value descending, added_positions
\* by shares_change_pct descending and trimmed_positions by
\* shares_change_pct ascending.
C26_SortOrders ==
    \A f \in DOMAIN fund_diffs :
        LET d == fund_diffs[f]
        IN  /\ \A i, j \in DOMAIN d.new_positions :
                  i < j => d.new_positions[i].current_value_thousands
                             >= d.new_positions[j].current_value_thousands
            /\ \A i, j \in DOMAIN d.exited_positions :
                  i < j => d.exited_positions[i].prior_value_thousands
                             >= d.exited_positions[j].prior_value_thousands
            /\ \A i, j \in DOMAIN d.added_positions :
                  i < j => FracGE(d.added_positions[i].shares_change_pct,
                                  d.added_positions[j].shares_change_pct)
            /\ \A i, j \in DOMAIN d.trimmed_positions :
                  i < j => FracLE(d.trimmed_positions[i].shares_change_pct,
                                  d.trimmed_positions[j].shares_change_pct)

\* One fund added to two positions by different percentages and another
\* trimmed two by different percentages; the larger add and the larger cut
\* come first.
C26_Witness ==
    \E f, g \in DOMAIN fund_diffs :
        /\ Len(fund_diffs[f].added_positions) = 2
        /\ FracGT(fund_diffs[f].added_positions[1].shares_change_pct,
                  fund_diffs[f].added_positions[2].shares_change_pct)
        /\ Len(fund_diffs[g].trimmed_positions) = 2
        /\ FracLT(fund_diffs[g].trimmed_positions[1].shares_change_pct,
                  fund_diffs[g].trimmed_positions[2].shares_change_pct)

\* the orders the same fund diffs can be listed in
Orderings ==
    {p \in [DOMAIN fund_diffs -> DOMAIN fund_diffs] :
        \A i, j \in DOMAIN fund_diffs : i # j => p[i] # p[j]}

\* what the claim compares of a CrowdedTrade and of a FundDivergence
TradeSummary(t) ==
    [cusip |-> t.cusip, ticker |-> t.ticker,
     net_fund_sentiment |-> t.net_fund_sentiment,
     aggregate_value_thousands |-> t.aggregate_value_thousands,
     aggregate_shares |-> t.aggregate_shares]
TradeSummaries(list) == {TradeSummary(list[i]) : i \in DOMAIN list}
Instruments(list) == {list[i].cusip : i \in DOMAIN list}

\* C27: aggregate_signals does not depend on the order of fund_diffs: for
\* any permutation the instruments of crowded_trades,
\* consensus_initiations, divergences and crowding_risks are the same, and
\* so are each instrument's net_fund_sentiment, aggregate_value_thousands,
\* aggregate_shares and ticker.
C27_OrderIndependent ==
    signals # NoResult =>
        \A p \in Orderings :
            LET other == aggregate_signals([i \in DOMAIN fund_diffs |-> fund_diffs[p[i]]],
                                           agg_args[1].min_funds_for_crowd,
                                           agg_args[1].min_funds_for_consensus,
                                           sector_map)
            IN  /\ TradeSummaries(other.crowded_trades)
                      = TradeSummaries(signals[1].crowded_trades)
                /\ TradeSummaries(other.consensus_initiations)
                      = TradeSummaries(signals[1].consensus_initiations)
                /\ TradeSummaries(other.crowding_risks)
                      = TradeSummaries(signals[1].crowding_risks)
                /\ Instruments(other.divergences) = Instruments(signals[1].divergences)

\* Two funds with different diffs act on one instrument (one initiates it,
\* the other adds to it); it is a crowded trade and a crowding risk, and
\* another instrument is a divergence.
C27_Witness ==
    /\ signals # NoResult
    /\ Len(fund_diffs) = 2 /\ fund_diffs[1] # fund_diffs[2]
    /\ \E c \in {CUSIP_X, CUSIP_W} :
          /\ FundsWith("new_positions", c) # {}
          /\ FundsWith("added_positions", c) # {}
          /\ TradesFor(signals[1].crowded_trades, c) # {}
          /\ TradesFor(signals[1].crowding_risks, c) # {}
    /\ signals[1].divergences # <<>>

(***************************************************************************)
(* Properties of the store (SpecStore)                                     *)
(***************************************************************************)
\* the positions get_holdings returns, each with the number of times it is
\* returned
Returned(table, cik, quarter_end) ==
    LET got == get_holdings(table, cik, quarter_end)
    IN  [h \in {got[i] : i \in DOMAIN got} |->
            Cardinality({i \in DOMAIN got : got[i] = h})]

\* C28: storing the same FundHoldings a second time for the same fund and
\* quarter leaves get_holdings returning the same positions as after the
\* first store: no position, equity or option, is returned twice.
C28_StoreIdempotent ==
    [][(store_calls' = store_calls + 1 /\ store_args' = store_args)
        => Returned(db_holdings', store_args[1].cik, store_args[1].quarter_end)
             = Returned(db_holdings, store_args[1].cik, store_args[1].quarter_end)]_vars

\* the same for the options alone: a filing of options only is stored twice
\* and get_holdings returns each option once
C28_OptionsReplaced ==
    [][(/\ store_calls' = store_calls + 1 /\ store_args' = store_args
        /\ \A i \in DOMAIN store_args[1].holdings : is_option(store_args[1].holdings[i]))
        => Returned(db_holdings', store_args[1].cik, store_args[1].quarter_end)
             = Returned(db_holdings, store_args[1].cik, store_args[1].quarter_end)]_vars

(***************************************************************************)
(* Properties of the CUSIP resolver (SpecResolve)                          *)
(***************************************************************************)
\* C29: once resolve_cusips has cached a miss for a CUSIP
\* (cache_write(cusip, None, None, None) on the store-backed cache), no
\* later resolve_cusips call sends that CUSIP to the lookup service again.
C29_MissNotRequeried ==
    [][\A c \in cached_miss : GetOr(lookups', c, 0) = GetOr(lookups, c, 0)]_vars

\* the second half of C29: the mapping resolve_cusips returns never holds a
\* CUSIP whose ticker is empty or unresolved
C29_OnlyTickers ==
    resolved # NoResult =>
        \A c \in DOMAIN resolved[1] : resolved[1][c] # NULL /\ resolved[1][c] # ""

\* a CUSIP resolved to an empty ticker is answered from the cache and is
\* left out of the mapping
C29_EmptyTickerCached ==
    /\ resolved # NoResult
    /\ Has(cusip_map, CUSIP_X) /\ cusip_map[CUSIP_X] = ""
    /\ CUSIP_X \notin DOMAIN resolved[1]

(***************************************************************************)
(* Properties of fetch_filings (SpecFetch)                                 *)
(***************************************************************************)
AllFilings == UNION {{FilingsOf(FetchFunds[i])[j] : j \in DOMAIN FilingsOf(FetchFunds[i])} : i \in DOMAIN FetchFunds}

\* C30: a filing is recorded as processed only after store_holdings stored
\* its holdings; a filing whose fetch, parse or store raised is not marked
\* processed by that run and a later run that comes to it fetches it again
\* instead of skipping it; a filing marked processed is never fetched or
\* stored again.
C30_ProcessedAfterStored ==
    /\ [](filing_index \subseteq stored_filings)
    /\ [][\A f \in AllFilings :
            /\ (f \in raised' /\ f \notin raised) => f \notin filing_index'
            /\ (f \notin filing_index /\ fetch_pos # NoResult /\ fetch_pos[1].filing > 0
                  /\ FilingAt(fetch_pos[1]) = f /\ fetch_pos' # fetch_pos)
                 => Count(fetched', f) = Count(fetched, f) + 1
            /\ f \in filing_index
                 => /\ Count(fetched', f) = Count(fetched, f)
                    /\ (f \in stored_filings' <=> f \in stored_filings)
                    /\ f \in filing_index']_vars

\* In a later run a filing whose processing raised before is processed,
\* and a filing processed before is skipped.
C30_Witness ==
    /\ fetch_runs = 2
    /\ fetch_event # NoResult /\ fetch_event[1].did = "processed"
    /\ fetch_event[1].filing \in raised
    /\ \E f \in filing_index : f # fetch_event[1].filing /\ Count(fetched, f) = 1

(***************************************************************************)
(* Properties of compute_fund_baselines (SpecBase)                         *)
(***************************************************************************)
\* what the history reader returns for the fund in the call made
HistoryRead(cik) ==
    get_cross_quarter_activity(db_holdings, cik, base_args[1].current_quarter)
Requested == {base_args[1].fund_ciks[i] : i \in DOMAIN base_args[1].fund_ciks}
\* a number that was computed without an error
Defined(x) == x[2] # 0
BaselineFields ==
    {"activity_mean", "activity_std", "hhi_change_mean", "hhi_change_std",
     "max_new_weight_mean", "max_new_weight_std"}

\* C22: compute_fund_baselines returns a baseline for a requested fund
\* exactly when the history reader returns at least min_quarters records
\* for it; a fund with fewer is omitted without any error, and the keys
\* of the result are among the requested fund ids.
C22_BaselineKeys ==
    fund_baselines # NoResult =>
        /\ DOMAIN fund_baselines[1] \subseteq Requested
        /\ \A cik \in Requested :
              cik \in DOMAIN fund_baselines[1]
                <=> Len(HistoryRead(cik)) >= base_args[1].min_quarters
        /\ \A cik \in DOMAIN fund_baselines[1] :
              \A field \in BaselineFields : Defined(fund_baselines[1][cik][field])

\* Two funds are requested with min_quarters = 2: the one with exactly two
\* records gets a baseline, the one with one record is omitted.
C22_Witness ==
    /\ fund_baselines # NoResult
    /\ base_args[1].min_quarters = 2
    /\ Len(HistoryRead(BaseCiks[1])) = 2 /\ Len(HistoryRead(BaseCiks[2])) = 1
    /\ Requested = {BaseCiks[1], BaseCiks[2]}
    /\ DOMAIN fund_baselines[1] = {BaseCiks[1]}

ObservedCounts == {0, 1, 5}
ObservedHhiChanges == {Frac(0 - 1, 2), Frac(0, 1), Frac(1, 4)}
ObservedWeights == {Frac(0, 1), Frac(50, 1)}

\* the z-score the claim states
StatedZ(observed, mean, std) ==
    IF std[1] # 0 THEN FracDiv(FracSub(observed, mean), std) ELSE Frac(0, 1)
\* the activity counts of the fund's history
ActivityCounts(cik) ==
    {HistoryRead(cik)[i].new_positions + HistoryRead(cik)[i].exited_positions :
        i \in DOMAIN HistoryRead(cik)}

\* C23: each z-score function of a FundBaseline returns
\* (observed - mean) / std when std is not 0 and exactly 0 when std = 0,
\* never an error; a fund whose history has the same activity count in
\* every quarter gets an activity z-score of 0 for any observed count.
C23_ZScores ==
    fund_baselines # NoResult =>
        \A cik \in DOMAIN fund_baselines[1] :
            LET bl == fund_baselines[1][cik]
            IN  /\ \A n \in ObservedCounts :
                      /\ activity_zscore(bl, n)
                            = StatedZ(Frac(n, 1), bl.activity_mean, bl.activity_std)
                      /\ Defined(activity_zscore(bl, n))
                      /\ Cardinality(ActivityCounts(cik)) = 1
                            => activity_zscore(bl, n) = Frac(0, 1)
                /\ \A h \in ObservedHhiChanges :
                      /\ hhi_zscore(bl, h)
                            = StatedZ(FracAbs(h), bl.hhi_change_mean, bl.hhi_change_std)
                      /\ Defined(hhi_zscore(bl, h))
                /\ \A w \in ObservedWeights :
                      /\ new_position_zscore(bl, w)
                            = StatedZ(w, bl.max_new_weight_mean, bl.max_new_weight_std)
                      /\ Defined(new_position_zscore(bl, w))

\* One fund's history has one move in each of three quarter pairs (mean
\* 1, std 0) and its activity z-score for 5 moves is 0, while the std of
\* its new-position weights is not 0.
C23_Witness ==
    /\ fund_baselines # NoResult
    /\ BaseCiks[1] \in DOMAIN fund_baselines[1]
    /\ Len(HistoryRead(BaseCiks[1])) = 3
    /\ ActivityCounts(BaseCiks[1]) = {1}
    /\ fund_baselines[1][BaseCiks[1]].activity_std = Frac(0, 1)
    /\ activity_zscore(fund_baselines[1][BaseCiks[1]], 5) = Frac(0, 1)
    /\ fund_baselines[1][BaseCiks[1]].max_new_weight_std[1] # 0
====
